---- MODULE Spec2Model ----
(***************************************************************************)
(* serde_dokechi: the variable-length unsigned integer codec               *)
(* (src/src/varuint.rs), the writer engine (src/src/ser.rs) and the reader *)
(* engine (src/src/de.rs).                                                 *)
(*                                                                         *)
(* Numbers are bit vectors: a value of width w is a sequence of w bits,    *)
(* most significant first (two's complement for the signed widths).  The   *)
(* wire, the sink and the source are sequences of bytes 0..255.            *)
(***************************************************************************)
EXTENDS Integers, Sequences, FiniteSets, TLC

(***************************************************************************)
(* Bounds of the model.                                                    *)
(***************************************************************************)
\* longest sequence / map (in elements) handed to the writer
MaxSeqLen == 2
\* greatest number of bytes appended to a written buffer before it is read
MaxTrail == 1

(***************************************************************************)
(* Bit and byte arithmetic.                                                *)
(***************************************************************************)
Zeros(n) == [i \in 1..n |-> 0]

Ones(n) == [i \in 1..n |-> 1]

Reverse(s) == [i \in 1..Len(s) |-> s[Len(s) + 1 - i]]

RECURSIVE Flatten(_)
Flatten(ss) == IF ss = <<>> THEN <<>> ELSE Head(ss) \o Flatten(Tail(ss))

\* a | b on two bytes
RECURSIVE BitOr(_, _)
BitOr(a, b) ==
    IF a = 0 THEN b
    ELSE IF b = 0 THEN a
    ELSE (IF a % 2 = 1 \/ b % 2 = 1 THEN 1 ELSE 0) + 2 * BitOr(a \div 2, b \div 2)

\* a & b on two bytes
RECURSIVE BitAnd(_, _)
BitAnd(a, b) ==
    IF a = 0 \/ b = 0 THEN 0
    ELSE (IF a % 2 = 1 /\ b % 2 = 1 THEN 1 ELSE 0) + 2 * BitAnd(a \div 2, b \div 2)

\* the byte whose bits, most significant first, are the 8-bit vector bits
ByteOfBits(bits) ==
    128 * bits[1] + 64 * bits[2] + 32 * bits[3] + 16 * bits[4]
      + 8 * bits[5] + 4 * bits[6] + 2 * bits[7] + bits[8]

\* the 8 bits of a byte, most significant first
BitsOfByte(b) ==
    << (b \div 128) % 2, (b \div 64) % 2, (b \div 32) % 2, (b \div 16) % 2,
       (b \div 8) % 2, (b \div 4) % 2, (b \div 2) % 2, b % 2 >>

\* uN::to_be_bytes / iN::to_be_bytes
to_be_bytes(v) ==
    [i \in 1..(Len(v) \div 8) |-> ByteOfBits(SubSeq(v, 8 * (i - 1) + 1, 8 * i))]

\* uN::from_be_bytes / iN::from_be_bytes
from_be_bytes(bs) ==
    [i \in 1..(8 * Len(bs)) |-> BitsOfByte(bs[((i - 1) \div 8) + 1])[((i - 1) % 8) + 1]]

\* uN::to_le_bytes / iN::to_le_bytes
to_le_bytes(v) == Reverse(to_be_bytes(v))

\* uN::from_le_bytes / iN::from_le_bytes
from_le_bytes(bs) == from_be_bytes(Reverse(bs))

\* uN::leading_zeros
leading_zeros(v) ==
    IF \A i \in 1..Len(v) : v[i] = 0 THEN Len(v)
    ELSE (CHOOSE i \in 1..Len(v) : v[i] = 1 /\ \A j \in 1..(i - 1) : v[j] = 0) - 1

\* `v as uM` between integer types: truncation keeps the low bits, widening of
\* an unsigned value zero-extends
AsUnsigned(v, width) ==
    IF Len(v) >= width THEN SubSeq(v, Len(v) - width + 1, Len(v))
    ELSE Zeros(width - Len(v)) \o v

\* a <= b on two unsigned values of the same width
ULeq(a, b) ==
    \/ a = b
    \/ \E i \in 1..Len(a) : a[i] < b[i] /\ \A j \in 1..(i - 1) : a[j] = b[j]

\* the w-bit vector of the natural number n (n < 2^w and n < 2^30)
NatToBits(n, w) ==
    [i \in 1..w |-> IF w - i >= 30 THEN 0 ELSE (n \div (2 ^ (w - i))) % 2]

(***************************************************************************)
(* Values and results.                                                     *)
(*                                                                         *)
(* A value is a record [k, n, fs]: k is the serde data-model kind, n the   *)
(* bit vector of a number (the variant index of an enum variant, the size  *)
(* hint flag of a sequence or map) and fs the sub-values in traversal      *)
(* order (a map holds key, value, key, value, ...).                        *)
(*                                                                         *)
(* A read yields a Result: Ok with what was read and the source left, or   *)
(* Err with the error and the source left.                                 *)
(***************************************************************************)
Val(k, n, fs) == [k |-> k, n |-> n, fs |-> fs]

\* size hint flag of a sequence or map: the length is known (Some(len))
Known == <<1>>

\* size hint flag of a sequence or map: the length is not known (None)
Unknown == <<0>>

NoValue == Val("none", <<>>, <<>>)

Ok(v, r) == [ok |-> TRUE, v |-> v, r |-> r, err |-> "none"]

Err(e, r) == [ok |-> FALSE, v |-> NoValue, r |-> r, err |-> e]

\* `let x = d?; K(x)`: the error of d is returned, or the rest of the function
\* runs on what d yielded
Try(d, K(_)) == IF d.ok THEN K(d) ELSE Err(d.err, d.r)

\* `match d { Ok(x) => OnOk(x), Err(e) => OnErr(e) }`
Match(d, OnOk(_), OnErr(_)) == IF d.ok THEN OnOk(d) ELSE OnErr(d)

\* `let x = v; K(x)`
With(v, K(_)) == K(v)

(***************************************************************************)
(* std::io::Read::read_exact on the source r.  On success the n bytes are  *)
(* taken from the front of r; with fewer than n bytes left it fails with   *)
(* ErrorKind::UnexpectedEof.                                               *)
(***************************************************************************)
read_exact(r, n) ==
    IF Len(r) >= n
    THEN Ok(SubSeq(r, 1, n), SubSeq(r, n + 1, Len(r)))
    ELSE Err("UnexpectedEof", r)

(***************************************************************************)
(* varuint.rs                                                              *)
(***************************************************************************)
\* one arm of encode_u64's match: the marker byte or-ed with the partial
\* value byte bs[idx], then the remaining value bytes
EncodeArm(bs, marker, idx) ==
    <<BitOr(marker, bs[idx])>> \o SubSeq(bs, idx + 1, Len(bs))

\* encode_u64 without the 56-bit arm: a value of 50 to 56 bits takes the
\* 9-byte form
encode_u64_No56Arm(v) ==
    LET bs == to_be_bytes(v)
        x  == 64 - leading_zeros(v)
    IN  IF x <= 7 THEN <<bs[8]>>
        ELSE IF x <= 14 THEN EncodeArm(bs, 128, 7)
        ELSE IF x <= 21 THEN EncodeArm(bs, 192, 6)
        ELSE IF x <= 28 THEN EncodeArm(bs, 224, 5)
        ELSE IF x <= 35 THEN EncodeArm(bs, 240, 4)
        ELSE IF x <= 42 THEN EncodeArm(bs, 248, 3)
        ELSE IF x <= 49 THEN EncodeArm(bs, 252, 2)
        ELSE <<255>> \o SubSeq(bs, 1, 8)

\* encode_u64(w, v): the bytes written to w, in order
encode_u64(v) ==
    LET bs == to_be_bytes(v)
        x  == 64 - leading_zeros(v)
    IN  IF x <= 7 THEN <<bs[8]>>
        ELSE IF x <= 14 THEN EncodeArm(bs, 128, 7)
        ELSE IF x <= 21 THEN EncodeArm(bs, 192, 6)
        ELSE IF x <= 28 THEN EncodeArm(bs, 224, 5)
        ELSE IF x <= 35 THEN EncodeArm(bs, 240, 4)
        ELSE IF x <= 42 THEN EncodeArm(bs, 248, 3)
        ELSE IF x <= 49 THEN EncodeArm(bs, 252, 2)
        ELSE IF x <= 56 THEN <<254>> \o SubSeq(bs, 2, 8)
        ELSE <<255>> \o SubSeq(bs, 1, 8)

\* encode_u128(w, v): the bytes written to w, in order
encode_u128(v) ==
    LET bs == to_be_bytes(v)
        x  == 128 - leading_zeros(v)
    IN  IF x <= 7 THEN <<bs[16]>>
        ELSE IF x <= 14 THEN EncodeArm(bs, 128, 15)
        ELSE IF x <= 21 THEN EncodeArm(bs, 192, 14)
        ELSE IF x <= 28 THEN EncodeArm(bs, 224, 13)
        ELSE IF x <= 35 THEN EncodeArm(bs, 240, 12)
        ELSE IF x <= 42 THEN EncodeArm(bs, 248, 11)
        ELSE IF x <= 49 THEN EncodeArm(bs, 252, 10)
        ELSE IF x <= 56 THEN <<254>> \o SubSeq(bs, 10, 16)
        ELSE <<255>> \o SubSeq(bs, 1, 16)

\* an arm of decode_u64 that keeps the marker bits of the head byte
DecodeArm_NoMask(h, r, mask, idx) ==
    Try(read_exact(r, 8 - idx),
        LAMBDA rd : Ok(Zeros(idx - 1) \o <<h>> \o rd.v, rd.r))

\* one arm of decode_u64's match: bs[idx] = mask & h, then read_exact into
\* bs[idx+1 .. 8]; the result is the 8-byte buffer and the source left
DecodeArm(h, r, mask, idx) ==
    Try(read_exact(r, 8 - idx),
        LAMBDA rd : Ok(Zeros(idx - 1) \o <<BitAnd(mask, h)>> \o rd.v, rd.r))

\* the arms of decode_u64 with a malformed-input error for the head byte 0xFF
DecodeMatch_NoFullArm(h, r) ==
    IF h <= 127 THEN Ok(Zeros(7) \o <<BitAnd(127, h)>>, r)
    ELSE IF h <= 191 THEN DecodeArm(h, r, 63, 7)
    ELSE IF h <= 223 THEN DecodeArm(h, r, 31, 6)
    ELSE IF h <= 239 THEN DecodeArm(h, r, 15, 5)
    ELSE IF h <= 247 THEN DecodeArm(h, r, 7, 4)
    ELSE IF h <= 251 THEN DecodeArm(h, r, 3, 3)
    ELSE IF h <= 253 THEN DecodeArm(h, r, 1, 2)
    ELSE IF h <= 254 THEN DecodeArm(h, r, 0, 1)
    ELSE Err("InvalidData", r)

\* the arm of decode_u64 chosen by the head byte h
DecodeMatch(h, r) ==
    IF h <= 127 THEN Ok(Zeros(7) \o <<BitAnd(127, h)>>, r)
    ELSE IF h <= 191 THEN DecodeArm(h, r, 63, 7)
    ELSE IF h <= 223 THEN DecodeArm(h, r, 31, 6)
    ELSE IF h <= 239 THEN DecodeArm(h, r, 15, 5)
    ELSE IF h <= 247 THEN DecodeArm(h, r, 7, 4)
    ELSE IF h <= 251 THEN DecodeArm(h, r, 3, 3)
    ELSE IF h <= 253 THEN DecodeArm(h, r, 1, 2)
    ELSE IF h <= 254 THEN DecodeArm(h, r, 0, 1)
    ELSE IF h = 255 THEN read_exact(r, 8)
    ELSE Err("InvalidData", r)

\* decode_u64(r): Ok with the value and the source left, or the io error
decode_u64(r) ==
    Try(read_exact(r, 1),
        LAMBDA head : Try(DecodeMatch(head.v[1], head.r),
                          LAMBDA m : Ok(from_be_bytes(m.v), m.r)))

\* decode_u128 whose 0xFF arm fills the 8-byte buffer of the other arms
decode_u128_EightByteArm(r) ==
    Try(read_exact(r, 1),
        LAMBDA head : Try(DecodeMatch(head.v[1], head.r),
                          LAMBDA m : Ok(Zeros(64) \o from_be_bytes(m.v), m.r)))

\* decode_u128(r): the arms of decode_u64 on an 8-byte buffer, widened by
\* `as u128`, but for the 0xFF arm, which reads 16 bytes into its own buffer
decode_u128(r) ==
    Try(read_exact(r, 1),
        LAMBDA head : IF head.v[1] = 255
                      THEN Try(read_exact(head.r, 16),
                               LAMBDA rd : Ok(from_be_bytes(rd.v), rd.r))
                      ELSE Try(DecodeMatch(head.v[1], head.r),
                               LAMBDA m : Ok(Zeros(64) \o from_be_bytes(m.v), m.r)))

(***************************************************************************)
(* ser.rs: the writer engine.  Every operation yields the bytes it wrote   *)
(* to the sink and the error it returned ("none" for Ok); uw marks, byte   *)
(* by byte, the writes whose io::Result the engine unwraps.                *)
(***************************************************************************)
Wrote(bs) == [w |-> bs, uw |-> [i \in 1..Len(bs) |-> FALSE], err |-> "none"]

Failed(e) == [w |-> <<>>, uw |-> <<>>, err |-> e]

\* a `?`-chained pair of writer calls: b runs only when a returned Ok
Then(a, b) ==
    IF a.err # "none" THEN a ELSE [w |-> a.w \o b.w, uw |-> a.uw \o b.uw, err |-> b.err]

\* .unwrap() on the io::Result of the writes of a: the sink failing one of
\* them panics
Unwrap(a) == [a EXCEPT !.uw = [i \in 1..Len(a.w) |-> TRUE]]

\* v + 1 (wrapping) and !v on a two's complement bit vector; -v is !v + 1
AddOne(v) ==
    IF \A i \in 1..Len(v) : v[i] = 1 THEN Zeros(Len(v))
    ELSE LET p == CHOOSE i \in 1..Len(v) : v[i] = 0 /\ \A j \in (i + 1)..Len(v) : v[j] = 1
         IN  [i \in 1..Len(v) |-> IF i < p THEN v[i] ELSE IF i = p THEN 1 ELSE 0]

Not(v) == [i \in 1..Len(v) |-> 1 - v[i]]

IntMax(w) == <<0>> \o Ones(w - 1)

IntMin(w) == <<1>> \o Zeros(w - 1)

\* v << 1
Shl1(v) == Tail(v) \o <<0>>

\* v | 1
Or1(v) == SubSeq(v, 1, Len(v) - 1) \o <<1>>

\* the mapping with -v in place of -(v + 1) for a negative v
zigzag_Negate(v) ==
    LET w == Len(v)
    IN  IF v[1] = 0
        THEN [u |-> Shl1(v), overflow |-> v[1] = 1]
        ELSE LET neg == AddOne(Not(v))
             IN  [u |-> Or1(Shl1(neg)), overflow |-> v = IntMin(w) \/ neg[1] = 1]

\* the signed-to-unsigned mapping of serialize_i16 .. serialize_i128:
\*   if v >= 0 { (v as uN) << 1 } else { ((-(v + 1)) as uN) << 1 | 1 }
\* u is the result; overflow tells that an addition or negation overflowed
\* the width or that the shift dropped a one bit
zigzag(v) ==
    LET w == Len(v)
    IN  IF v[1] = 0
        THEN [u |-> Shl1(v), overflow |-> v[1] = 1]
        ELSE LET v1  == AddOne(v)
                 neg == AddOne(Not(v1))
             IN  [u |-> Or1(Shl1(neg)),
                  overflow |-> v = IntMax(w) \/ v1 = IntMin(w) \/ neg[1] = 1]

serialize_bool(v) == Wrote(IF v = <<1>> THEN <<1>> ELSE <<0>>)

serialize_i8(v) == Wrote(to_le_bytes(v))

serialize_u8(v) == Wrote(to_le_bytes(v))

serialize_u16(v) == Wrote(encode_u64(AsUnsigned(v, 64)))

serialize_u32(v) == Wrote(encode_u64(AsUnsigned(v, 64)))

serialize_u64(v) == Wrote(encode_u64(v))

serialize_u128(v) ==
    LET upper == SubSeq(v, 1, 64)
        lower == SubSeq(v, 65, 128)
    IN  Then(Unwrap(Wrote(encode_u64(AsUnsigned(lower, 64)))),
             Unwrap(Wrote(encode_u64(AsUnsigned(upper, 64)))))

serialize_i16(v) == serialize_u16(zigzag(v).u)

serialize_i32(v) == serialize_u32(zigzag(v).u)

serialize_i64(v) == serialize_u64(zigzag(v).u)

serialize_i128(v) == serialize_u128(zigzag(v).u)

\* serialize_char: the first 3 bytes of (v as u32).to_le_bytes()
serialize_char(v) == Wrote(SubSeq(to_le_bytes(v), 1, 3))

\* serialize_str: v is the string's UTF-8 bytes
serialize_str(v) == Then(Wrote(encode_u64(NatToBits(Len(v), 64))), Wrote(v))

serialize_bytes(v) == Then(Wrote(encode_u64(NatToBits(Len(v), 64))), Wrote(v))

serialize_none == Wrote(<<0>>)

serialize_unit == Wrote(<<>>)

serialize_unit_struct == Wrote(<<>>)

serialize_unit_variant(variant_index) == Wrote(encode_u64(AsUnsigned(variant_index, 64)))

\* serialize_seq that writes no element count
serialize_seq_NoLength(len) ==
    IF len = <<>> THEN Failed("NoSequenceSize") ELSE Wrote(<<>>)

\* serialize_seq(len): len is <<>> for None and <<n>> for Some(n)
serialize_seq(len) ==
    IF len = <<>> THEN Failed("NoSequenceSize")
    ELSE Wrote(encode_u64(NatToBits(len[1], 64)))

\* serialize_tuple that writes the arity as a length prefix
serialize_tuple_WithLength(len) == Wrote(encode_u64(NatToBits(len, 64)))

serialize_tuple(len) == Wrote(<<>>)

serialize_tuple_struct(len) == Wrote(<<>>)

\* serialize_tuple_variant that writes no variant index
serialize_tuple_variant_NoIndex(variant_index, len) == Wrote(<<>>)

serialize_tuple_variant(variant_index, len) ==
    Wrote(encode_u64(AsUnsigned(variant_index, 64)))

\* serialize_map that takes a missing size hint for an empty map
serialize_map_NoneAsEmpty(len) ==
    IF len = <<>> THEN Wrote(encode_u64(Zeros(64)))
    ELSE Wrote(encode_u64(NatToBits(len[1], 64)))

serialize_map(len) ==
    IF len = <<>> THEN Failed("NoSequenceSize")
    ELSE Wrote(encode_u64(NatToBits(len[1], 64)))

serialize_struct(len) == Wrote(<<>>)

serialize_struct_variant(variant_index, len) ==
    Wrote(encode_u64(AsUnsigned(variant_index, 64)))

RECURSIVE Serialize(_)

serialize_some(value) == Then(Wrote(<<1>>), Serialize(value))

serialize_newtype_struct(value) == Serialize(value)

serialize_newtype_variant(variant_index, value) ==
    Then(Wrote(encode_u64(AsUnsigned(variant_index, 64))), Serialize(value))

\* Compound::serialize_element / serialize_field / serialize_key /
\* serialize_value, called for each sub-value in order, then Compound::end
RECURSIVE serialize_elements(_)
serialize_elements(fs) ==
    IF fs = <<>> THEN Wrote(<<>>)
    ELSE Then(Serialize(Head(fs)), serialize_elements(Tail(fs)))

\* the size hint a collection hands to serialize_seq / serialize_map
SizeHint(v, n) == IF v.n = Known THEN <<n>> ELSE <<>>

\* value.serialize(&mut serializer): the traversal of a value, one writer
\* call per node
Serialize(v) ==
    CASE v.k = "bool" -> serialize_bool(v.n)
      [] v.k = "i8"   -> serialize_i8(v.n)
      [] v.k = "i16"  -> serialize_i16(v.n)
      [] v.k = "i32"  -> serialize_i32(v.n)
      [] v.k = "i64"  -> serialize_i64(v.n)
      [] v.k = "i128" -> serialize_i128(v.n)
      [] v.k = "u8"   -> serialize_u8(v.n)
      [] v.k = "u16"  -> serialize_u16(v.n)
      [] v.k = "u32"  -> serialize_u32(v.n)
      [] v.k = "u64"  -> serialize_u64(v.n)
      [] v.k = "u128" -> serialize_u128(v.n)
      [] v.k = "option" ->
            IF v.fs = <<>> THEN serialize_none ELSE serialize_some(v.fs[1])
      [] v.k = "char" -> serialize_char(v.n)
      [] v.k = "string" -> serialize_str(v.n)
      [] v.k = "bytes" -> serialize_bytes(v.n)
      [] v.k = "unit" -> serialize_unit
      [] v.k = "unit_struct" -> serialize_unit_struct
      [] v.k = "newtype_struct" -> serialize_newtype_struct(v.fs[1])
      [] v.k = "seq" ->
            Then(serialize_seq(SizeHint(v, Len(v.fs))), serialize_elements(v.fs))
      [] v.k = "map" ->
            Then(serialize_map(SizeHint(v, Len(v.fs) \div 2)), serialize_elements(v.fs))
      [] v.k = "tuple" ->
            Then(serialize_tuple(Len(v.fs)), serialize_elements(v.fs))
      [] v.k = "tuple_struct" ->
            Then(serialize_tuple_struct(Len(v.fs)), serialize_elements(v.fs))
      [] v.k = "struct" ->
            Then(serialize_struct(Len(v.fs)), serialize_elements(v.fs))
      [] v.k = "unit_variant" -> serialize_unit_variant(v.n)
      [] v.k = "newtype_variant" -> serialize_newtype_variant(v.n, v.fs[1])
      [] v.k = "tuple_variant" ->
            Then(serialize_tuple_variant(v.n, Len(v.fs)), serialize_elements(v.fs))
      [] v.k = "struct_variant" ->
            Then(serialize_struct_variant(v.n, Len(v.fs)), serialize_elements(v.fs))

\* Serializer::end that returns Ok without flushing the sink
SerializerEnd_NoFlush(s) == [w |-> s.w, flushes |-> 0, err |-> "none"]

\* Serializer::end on a serializer that wrote s: flush the sink
SerializerEnd(s) == [w |-> s.w, flushes |-> 1, err |-> "none"]

\* Serializer::end on a sink whose flush fails: self.w.flush()? returns the
\* io::Error as Error::IO
SerializerEndFlushFails(s) == [w |-> s.w, flushes |-> 1, err |-> "IO"]

\* to_writer(w, value): the bytes written, the number of flushes, the result
to_writer(value) ==
    With(Serialize(value),
         LAMBDA s : IF s.err # "none"
                    THEN [w |-> s.w, flushes |-> 0, err |-> s.err]
                    ELSE SerializerEnd(s))

\* to_writer(w, value) on a sink that takes every byte and fails to flush
to_writer_unflushable(value) ==
    With(Serialize(value),
         LAMBDA s : IF s.err # "none"
                    THEN [w |-> s.w, flushes |-> 0, err |-> s.err]
                    ELSE SerializerEndFlushFails(s))

\* to_writer(&mut buf[..room], value): the sink is a slice with room bytes
\* left; write_all fills what is left and fails.  The failure comes back as
\* Error::IO through `?`, or panics where the engine unwraps it.
to_writer_slice(room, value) ==
    With(Serialize(value),
         LAMBDA s : IF Len(s.w) > room
                    THEN [w |-> SubSeq(s.w, 1, room), flushes |-> 0,
                          err |-> IF s.uw[room + 1] THEN "Panic" ELSE "IO"]
                    ELSE IF s.err # "none"
                    THEN [w |-> s.w, flushes |-> 0, err |-> s.err]
                    ELSE SerializerEnd(s))

(***************************************************************************)
(* de.rs: the reader engine.  A shape is a record [k, ts]: the kind the    *)
(* consumer asks for and the shapes of its parts (the element shape of a   *)
(* sequence, the key and value shapes of a map, the field shapes of a      *)
(* tuple or struct, the variants of an enum).  Every operation yields Ok   *)
(* with the value and the source left, or the error and the source left.   *)
(***************************************************************************)
Shape(k, ts) == [k |-> k, ts |-> ts]

\* Deserializer::end that does not look at the source
\* the match of Deserializer::end that takes every failure of the source
\* for the end of the input
end_match_AnyErrorIsEof(rd) ==
    Match(rd,
          LAMBDA got : Err("IncompleteRead", got.r),
          LAMBDA e : Ok(NoValue, e.r))

\* the match of Deserializer::end on rd, the outcome of reading one byte
end_match(rd) ==
    Match(rd,
          LAMBDA got : Err("IncompleteRead", got.r),
          LAMBDA e : IF e.err = "UnexpectedEof" THEN Ok(NoValue, e.r)
                     ELSE Err("IO", e.r))

DeserializerEnd_NoCheck(r) == Ok(NoValue, r)

\* Deserializer::end
DeserializerEnd(r) == end_match(read_exact(r, 1))

\* u16::max_value() as u64
U16Max == Zeros(48) \o Ones(16)

\* u32::max_value() as u64
U32Max == Zeros(32) \o Ones(32)

\* parse_u16 without the range check: the value is cast to u16
parse_u16_Truncating(r) ==
    Try(decode_u64(r), LAMBDA d : Ok(Val("u16", AsUnsigned(d.v, 16), <<>>), d.r))

\* Deserializer::parse_u16
parse_u16(r) ==
    Try(decode_u64(r),
        LAMBDA d : IF ULeq(d.v, U16Max)
                   THEN Ok(Val("u16", AsUnsigned(d.v, 16), <<>>), d.r)
                   ELSE Err("InvalidValue", d.r))

\* Deserializer::parse_u32
parse_u32(r) ==
    Try(decode_u64(r),
        LAMBDA d : IF ULeq(d.v, U32Max)
                   THEN Ok(Val("u32", AsUnsigned(d.v, 32), <<>>), d.r)
                   ELSE Err("InvalidValue", d.r))

\* Deserializer::parse_u128
\* parse_u128 that takes the first varint for the upper half
parse_u128_UpperFirst(r) ==
    Try(decode_u64(r),
        LAMBDA upper : Try(decode_u64(upper.r),
                           LAMBDA lower : Ok(Val("u128", upper.v \o lower.v, <<>>),
                                             lower.r)))

parse_u128(r) ==
    Try(decode_u64(r),
        LAMBDA lower : Try(decode_u64(lower.r),
                           LAMBDA upper : Ok(Val("u128", upper.v \o lower.v, <<>>),
                                             upper.r)))

\* deserialize_bool that takes every non-zero byte for true
deserialize_bool_NonZeroTrue(r) ==
    Try(read_exact(r, 1),
        LAMBDA rd : IF rd.v[1] = 0 THEN Ok(Val("bool", <<0>>, <<>>), rd.r)
                    ELSE Ok(Val("bool", <<1>>, <<>>), rd.r))

deserialize_bool(r) ==
    Try(read_exact(r, 1),
        LAMBDA rd : IF rd.v[1] = 0 THEN Ok(Val("bool", <<0>>, <<>>), rd.r)
                    ELSE IF rd.v[1] = 1 THEN Ok(Val("bool", <<1>>, <<>>), rd.r)
                    ELSE Err("InvalidValue", rd.r))

\* the fixed-width read with from_be_bytes in place of from_le_bytes
ReadLe_BigEndian(k, nbytes, r) ==
    Try(read_exact(r, nbytes), LAMBDA rd : Ok(Val(k, from_be_bytes(rd.v), <<>>), rd.r))

\* deserialize_i8 .. deserialize_i128 and deserialize_u8: read_exact of the
\* width's bytes, then from_le_bytes
ReadLe(k, nbytes, r) ==
    Try(read_exact(r, nbytes), LAMBDA rd : Ok(Val(k, from_le_bytes(rd.v), <<>>), rd.r))

deserialize_i8(r) == ReadLe("i8", 1, r)

deserialize_i16(r) == ReadLe("i16", 2, r)

deserialize_i32(r) == ReadLe("i32", 4, r)

deserialize_i64(r) == ReadLe("i64", 8, r)

deserialize_i128(r) == ReadLe("i128", 16, r)

deserialize_u8(r) == ReadLe("u8", 1, r)

deserialize_u16(r) == parse_u16(r)

deserialize_u32(r) == parse_u32(r)

deserialize_u64(r) == Try(decode_u64(r), LAMBDA d : Ok(Val("u64", d.v, <<>>), d.r))

deserialize_u128(r) == parse_u128(r)

\* std::char::from_u32 that only checks the upper limit
char_from_u32_NoSurrogates(v) == ULeq(v, NatToBits(1114111, 32))

\* std::char::from_u32(v).is_some(): v is at most 0x10FFFF and not a surrogate
\* (0xD800..=0xDFFF)
char_from_u32(v) ==
    /\ ULeq(v, NatToBits(1114111, 32))
    /\ ~(ULeq(NatToBits(55296, 32), v) /\ ULeq(v, NatToBits(57343, 32)))

\* deserialize_char: read_exact into the first 3 of 4 zero bytes, then
\* u32::from_le_bytes and char::from_u32
deserialize_char(r) ==
    Try(read_exact(r, 3),
        LAMBDA rd : IF char_from_u32(from_le_bytes(rd.v \o <<0>>))
                    THEN Ok(Val("char", from_le_bytes(rd.v \o <<0>>), <<>>), rd.r)
                    ELSE Err("InvalidValue", rd.r))

\* the natural number of a bit vector
RECURSIVE BitsToNat(_)
BitsToNat(bits) ==
    IF bits = <<>> THEN 0
    ELSE 2 * BitsToNat(SubSeq(bits, 1, Len(bits) - 1)) + bits[Len(bits)]

\* `len as usize` as a number of bytes to read: the number itself up to 65535,
\* and 65536, more than any source holds, for every greater length
BufLen(len) ==
    IF SubSeq(len, 1, 48) = Zeros(48) THEN BitsToNat(SubSeq(len, 49, 64)) ELSE 65536

\* vec![0u8; len]: a buffer of more than isize::MAX bytes cannot be allocated,
\* the process panics (capacity overflow) or aborts (allocation failure);
\* every smaller buffer is taken to be allocated
vec_zeroed(len, r) == IF len[1] = 1 THEN Err("Panic", r) ELSE Ok(BufLen(len), r)

\* continuation byte of a UTF-8 sequence
IsCont(b) == b \in 128..191

RECURSIVE from_utf8(_)

\* String::from_utf8 that accepts every byte sequence
from_utf8_Unchecked(bs) == TRUE

\* String::from_utf8(bs).is_ok(): bs is a sequence of well-formed UTF-8 byte
\* sequences (no overlong form, no surrogate, nothing above U+10FFFF)
from_utf8(bs) ==
    IF bs = <<>> THEN TRUE
    ELSE IF bs[1] <= 127 THEN from_utf8(Tail(bs))
    ELSE IF bs[1] \in 194..223
    THEN Len(bs) >= 2 /\ IsCont(bs[2]) /\ from_utf8(SubSeq(bs, 3, Len(bs)))
    ELSE IF bs[1] \in 224..239
    THEN /\ Len(bs) >= 3
         /\ bs[2] \in (IF bs[1] = 224 THEN 160..191
                       ELSE IF bs[1] = 237 THEN 128..159 ELSE 128..191)
         /\ IsCont(bs[3])
         /\ from_utf8(SubSeq(bs, 4, Len(bs)))
    ELSE IF bs[1] \in 240..244
    THEN /\ Len(bs) >= 4
         /\ bs[2] \in (IF bs[1] = 240 THEN 144..191
                       ELSE IF bs[1] = 244 THEN 128..143 ELSE 128..191)
         /\ IsCont(bs[3]) /\ IsCont(bs[4])
         /\ from_utf8(SubSeq(bs, 5, Len(bs)))
    ELSE FALSE

\* deserialize_string / deserialize_str: the length varint, a zeroed buffer of
\* that length, read_exact into it, String::from_utf8
deserialize_string(r) ==
    Try(decode_u64(r),
        LAMBDA len :
           Try(vec_zeroed(len.v, len.r),
               LAMBDA buf :
                  Try(read_exact(buf.r, buf.v),
                      LAMBDA rd : IF from_utf8(rd.v)
                                  THEN Ok(Val("string", rd.v, <<>>), rd.r)
                                  ELSE Err("InvalidUtf8", rd.r))))

\* deserialize_byte_buf / deserialize_bytes
deserialize_byte_buf(r) ==
    Try(decode_u64(r),
        LAMBDA len :
           Try(vec_zeroed(len.v, len.r),
               LAMBDA buf : Try(read_exact(buf.r, buf.v),
                                LAMBDA rd : Ok(Val("bytes", rd.v, <<>>), rd.r))))

\* deserialize_any that skips a byte of the source before it fails
deserialize_any_SkipByte(r) ==
    Match(read_exact(r, 1),
          LAMBDA rd : Err("Unsupported", rd.r),
          LAMBDA e : Err("Unsupported", e.r))

deserialize_any(r) == Err("Unsupported", r)

deserialize_identifier(r) == Err("Unsupported", r)

deserialize_ignored_any(r) == Err("Unsupported", r)

deserialize_unit(r) == Ok(Val("unit", <<>>, <<>>), r)

deserialize_unit_struct(r) == Ok(Val("unit_struct", <<>>, <<>>), r)

RECURSIVE Deserialize(_, _)

\* deserialize_option that takes every non-zero tag for Some
deserialize_option_AnyTag(ts, r) ==
    Try(read_exact(r, 1),
        LAMBDA rd : IF rd.v[1] = 0 THEN Ok(Val("option", <<>>, <<>>), rd.r)
                    ELSE Try(Deserialize(ts[1], rd.r),
                             LAMBDA d : Ok(Val("option", <<>>, <<d.v>>), d.r)))

deserialize_option(ts, r) ==
    Try(read_exact(r, 1),
        LAMBDA rd : IF rd.v[1] = 0 THEN Ok(Val("option", <<>>, <<>>), rd.r)
                    ELSE IF rd.v[1] = 1
                    THEN Try(Deserialize(ts[1], rd.r),
                             LAMBDA d : Ok(Val("option", <<>>, <<d.v>>), d.r))
                    ELSE Err("InvalidValue", rd.r))

deserialize_newtype_struct(ts, r) ==
    Try(Deserialize(ts[1], r), LAMBDA d : Ok(Val("newtype_struct", <<>>, <<d.v>>), d.r))

\* the test `self.len > 0` of an Access that stops one element early
IsZero_OffByOne(len) == len = Zeros(Len(len)) \/ len = Zeros(Len(len) - 1) \o <<1>>

\* len == 0 and len - 1 on the usize counter of an Access
IsZero(len) == len = Zeros(Len(len))

SubOne(len) == Not(AddOne(Not(len)))

\* SeqAccess::next_element_seed of the Access of deserialize_tuple: some tells
\* whether an element was requested, len is the Access's counter afterwards
next_element_seed(t, len, r) ==
    IF ~IsZero(len)
    THEN [some |-> TRUE, len |-> SubOne(len), d |-> Deserialize(t, r)]
    ELSE [some |-> FALSE, len |-> len, d |-> Ok(NoValue, r)]

\* MapAccess::next_key_seed of the Access of deserialize_map
next_key_seed(t, len, r) ==
    IF ~IsZero(len)
    THEN [some |-> TRUE, len |-> SubOne(len), d |-> Deserialize(t, r)]
    ELSE [some |-> FALSE, len |-> len, d |-> Ok(NoValue, r)]

\* MapAccess::next_value_seed
next_value_seed(t, r) == Deserialize(t, r)

\* the visitor of a collection: next_element_seed until it yields None
RECURSIVE VisitSeq(_, _, _, _)
VisitSeq(t, len, r, acc) ==
    With(next_element_seed(t, len, r),
         LAMBDA e : IF ~e.some THEN Ok(acc, r)
                    ELSE Try(e.d, LAMBDA d : VisitSeq(t, e.len, d.r, Append(acc, d.v))))

\* the visitor of a tuple or struct: one next_element_seed per field, a None
\* before the last field is an invalid length
RECURSIVE VisitTuple(_, _, _, _)
VisitTuple(ts, len, r, acc) ==
    IF ts = <<>> THEN Ok(acc, r)
    ELSE With(next_element_seed(Head(ts), len, r),
              LAMBDA e : IF ~e.some THEN Err("InvalidLength", r)
                         ELSE Try(e.d, LAMBDA d : VisitTuple(Tail(ts), e.len, d.r,
                                                             Append(acc, d.v))))

\* the visitor of a map: next_key_seed until it yields None, next_value_seed
\* after each key
RECURSIVE VisitMap(_, _, _, _, _)
VisitMap(kt, vt, len, r, acc) ==
    With(next_key_seed(kt, len, r),
         LAMBDA e : IF ~e.some THEN Ok(acc, r)
                    ELSE Try(e.d,
                             LAMBDA key :
                                Try(next_value_seed(vt, key.r),
                                    LAMBDA val : VisitMap(kt, vt, e.len, val.r,
                                                          acc \o <<key.v, val.v>>))))

\* deserialize_tuple(len, visitor) for a tuple-like value of kind k
deserialize_tuple(k, n, ts, len, r) ==
    Try(VisitTuple(ts, len, r, <<>>), LAMBDA vis : Ok(Val(k, n, vis.v), vis.r))

deserialize_tuple_struct(ts, r) ==
    deserialize_tuple("tuple_struct", <<>>, ts, NatToBits(Len(ts), 64), r)

deserialize_struct(ts, r) ==
    deserialize_tuple("struct", <<>>, ts, NatToBits(Len(ts), 64), r)

\* deserialize_seq: the length varint, then deserialize_tuple(len, visitor)
deserialize_seq(ts, r) ==
    Try(decode_u64(r),
        LAMBDA len : Try(VisitSeq(ts[1], len.v, len.r, <<>>),
                         LAMBDA vis : Ok(Val("seq", Known, vis.v), vis.r)))

deserialize_map(ts, r) ==
    Try(decode_u64(r),
        LAMBDA len : Try(VisitMap(ts[1], ts[2], len.v, len.r, <<>>),
                         LAMBDA vis : Ok(Val("map", Known, vis.v), vis.r)))

\* EnumAccess::variant_seed: the index varint cast to u32, handed to the
\* enum's variant table
variant_seed(r) == Try(decode_u64(r), LAMBDA d : Ok(AsUnsigned(d.v, 32), d.r))

\* the variant table of an enum with the variants ts: the position of the
\* variant with index idx, 0 when there is none
VariantOf(ts, idx) ==
    IF \E i \in 1..Len(ts) : NatToBits(i - 1, 32) = idx
    THEN CHOOSE i \in 1..Len(ts) : NatToBits(i - 1, 32) = idx
    ELSE 0

\* VariantAccess::unit_variant
unit_variant(idx, r) == Ok(Val("unit_variant", idx, <<>>), r)

\* VariantAccess::newtype_variant_seed
newtype_variant_seed(idx, ts, r) ==
    Try(Deserialize(ts[1], r), LAMBDA d : Ok(Val("newtype_variant", idx, <<d.v>>), d.r))

\* VariantAccess::tuple_variant
tuple_variant(idx, ts, r) ==
    deserialize_tuple("tuple_variant", idx, ts, NatToBits(Len(ts), 64), r)

\* VariantAccess::struct_variant
struct_variant(idx, ts, r) ==
    deserialize_tuple("struct_variant", idx, ts, NatToBits(Len(ts), 64), r)

\* the variant's content, asked for by the visitor of the variant at position i
VariantContent(t, idx, r) ==
    CASE t.k = "unit_variant" -> unit_variant(idx, r)
      [] t.k = "newtype_variant" -> newtype_variant_seed(idx, t.ts, r)
      [] t.k = "tuple_variant" -> tuple_variant(idx, t.ts, r)
      [] t.k = "struct_variant" -> struct_variant(idx, t.ts, r)

deserialize_enum(ts, r) ==
    Try(variant_seed(r),
        LAMBDA s : IF VariantOf(ts, s.v) = 0 THEN Err("InvalidValue", s.r)
                   ELSE VariantContent(ts[VariantOf(ts, s.v)], s.v, s.r))

\* T::deserialize(&mut deserializer): the shape request the consumer makes
\* for the shape t
Deserialize(t, r) ==
    CASE t.k = "bool" -> deserialize_bool(r)
      [] t.k = "i8"   -> deserialize_i8(r)
      [] t.k = "i16"  -> deserialize_i16(r)
      [] t.k = "i32"  -> deserialize_i32(r)
      [] t.k = "i64"  -> deserialize_i64(r)
      [] t.k = "i128" -> deserialize_i128(r)
      [] t.k = "u8"   -> deserialize_u8(r)
      [] t.k = "u16"  -> deserialize_u16(r)
      [] t.k = "u32"  -> deserialize_u32(r)
      [] t.k = "u64"  -> deserialize_u64(r)
      [] t.k = "u128" -> deserialize_u128(r)
      [] t.k = "option" -> deserialize_option(t.ts, r)
      [] t.k = "char" -> deserialize_char(r)
      [] t.k = "string" -> deserialize_string(r)
      [] t.k = "byte_buf" -> deserialize_byte_buf(r)
      [] t.k = "unit" -> deserialize_unit(r)
      [] t.k = "unit_struct" -> deserialize_unit_struct(r)
      [] t.k = "newtype_struct" -> deserialize_newtype_struct(t.ts, r)
      [] t.k = "seq" -> deserialize_seq(t.ts, r)
      [] t.k = "map" -> deserialize_map(t.ts, r)
      [] t.k = "tuple" ->
            deserialize_tuple("tuple", <<>>, t.ts, NatToBits(Len(t.ts), 64), r)
      [] t.k = "tuple_struct" -> deserialize_tuple_struct(t.ts, r)
      [] t.k = "struct" -> deserialize_struct(t.ts, r)
      [] t.k = "enum" -> deserialize_enum(t.ts, r)
      [] t.k = "any" -> deserialize_any(r)
      [] t.k = "identifier" -> deserialize_identifier(r)
      [] t.k = "ignored_any" -> deserialize_ignored_any(r)

\* from_reader(r): the value or the error, and the source left
\* from_reader that runs the trailing-data check after a failed read too
from_reader_EndAnyway(t, r) ==
    Match(Deserialize(t, r),
          LAMBDA d : Try(DeserializerEnd(d.r), LAMBDA e : Ok(d.v, e.r)),
          LAMBDA f : Try(DeserializerEnd(f.r), LAMBDA e : Err(f.err, e.r)))

from_reader(t, r) ==
    Try(Deserialize(t, r),
        LAMBDA d : Try(DeserializerEnd(d.r), LAMBDA e : Ok(d.v, e.r)))

(***************************************************************************)
(* The values and sources the engines are run on.                          *)
(***************************************************************************)
\* the bit patterns 0, 2^(n-1) and 2^n - 1 for the bit counts n in ns
PatternsAt(w, ns) ==
    {Zeros(w)}
      \cup {Zeros(w - n) \o <<1>> \o Zeros(n - 1) : n \in ns}
      \cup {Zeros(w - n) \o Ones(n) : n \in ns}

\* unsigned values at both ends of every varint length class (7k and 7k + 1
\* bits, in either 64-bit half of a u128) and of the u16 and u32 ranges
Patterns(w) ==
    PatternsAt(w, {n \in 1..w : \/ (n % 64) % 7 \in {0, 1}
                                \/ n % 64 \in {0, 1}
                                \/ n \in {16, 17, 32, 33}})

\* signed values whose zigzag image is at an end of a varint length class
\* (7k - 1 and 7k bits), with 0, 1, the maximum, and the complements: -1, -2,
\* the minimum and the negative powers of two
SignedPatterns(w) ==
    LET ps == PatternsAt(w, {n \in 1..w : \/ (n % 64) % 7 \in {6, 0}
                                          \/ n \in {1, 2, w - 1, w}})
    IN  ps \cup {Not(p) : p \in ps}

Width(k) ==
    CASE k \in {"u8", "i8"} -> 8
      [] k \in {"u16", "i16"} -> 16
      [] k \in {"u32", "i32"} -> 32
      [] k \in {"u64", "i64"} -> 64
      [] k \in {"u128", "i128"} -> 128

UnsignedKinds == {"u8", "u16", "u32", "u64", "u128"}

SignedKinds == {"i8", "i16", "i32", "i64", "i128"}

WideSignedKinds == {"i16", "i32", "i64", "i128"}

\* the numbers of kind k a value is built from: all patterns at the top of a
\* value, a few inside a compound value, two inside a nested one
Numbers(k, depth) ==
    IF depth = 0
    THEN IF k \in SignedKinds THEN SignedPatterns(Width(k))
         ELSE IF k = "u8" THEN Patterns(8) \cup {NatToBits(123, 8)}
         ELSE Patterns(Width(k))
    ELSE IF depth = 1
    THEN CASE k = "u8" -> {NatToBits(1, 8), NatToBits(2, 8), NatToBits(255, 8)}
           [] k = "u16" -> {NatToBits(2, 16), NatToBits(1024, 16), NatToBits(65535, 16)}
           [] k = "u32" -> {NatToBits(0, 32), Ones(32)}
           [] k = "u64" -> {NatToBits(1249, 64), Ones(64)}
           [] k = "u128" -> {NatToBits(1, 128), Ones(128)}
           [] k \in SignedKinds -> {Zeros(Width(k)), Ones(Width(k)), IntMax(Width(k))}
    ELSE IF k \in SignedKinds THEN {Ones(Width(k)), IntMax(Width(k))}
    ELSE {NatToBits(1, Width(k)), Ones(Width(k))}

\* code points at the ends of the ranges of Unicode scalar values, and 'A',
\* U+8A9E, U+2123C and U+1F337
CharPoints == {0, 65, 35486, 55295, 57344, 65535, 65536, 127799, 135740, 1114111}

\* the UTF-8 bytes of "", "A", U+00E9, U+4F8B, U+1F337 and "sample" U+4F8B
Utf8Samples ==
    { <<>>, <<65>>, <<195, 169>>, <<228, 190, 139>>, <<240, 159, 140, 183>>,
      <<115, 97, 109, 112, 108, 101, 228, 190, 139>> }

\* byte sequences that are not UTF-8: a lone continuation byte, a cut
\* sequence, a byte that never occurs, an overlong form, a surrogate, a code
\* point above U+10FFFF
NonUtf8Samples ==
    { <<128>>, <<65, 195>>, <<255, 65>>, <<192, 128>>, <<237, 160, 128>>,
      <<244, 144, 128, 128>> }

\* the sequences that take their i-th element from the i-th set
RECURSIVE Tuples(_)
Tuples(sets) ==
    IF sets = <<>> THEN {<<>>}
    ELSE {<<h>> \o t : h \in Head(sets), t \in Tuples(Tail(sets))}

SeqsUpTo(S, n) == UNION {[1..m -> S] : m \in 0..n}

\* the values of shape t
RECURSIVE ValuesOf(_, _)
ValuesOf(t, depth) ==
    CASE t.k = "bool" -> {Val("bool", <<0>>, <<>>), Val("bool", <<1>>, <<>>)}
      [] t.k \in UnsignedKinds \cup SignedKinds ->
            {Val(t.k, n, <<>>) : n \in Numbers(t.k, depth)}
      [] t.k \in {"unit", "unit_struct"} -> {Val(t.k, <<>>, <<>>)}
      [] t.k = "char" -> {Val("char", NatToBits(c, 32), <<>>) : c \in CharPoints}
      [] t.k = "string" -> {Val("string", bs, <<>>) : bs \in Utf8Samples}
      [] t.k = "byte_buf" ->
            {Val("bytes", bs, <<>>) : bs \in Utf8Samples \cup NonUtf8Samples}
      [] t.k = "option" ->
            {Val("option", <<>>, <<>>)}
              \cup {Val("option", <<>>, <<x>>) : x \in ValuesOf(t.ts[1], depth)}
      [] t.k = "newtype_struct" ->
            {Val(t.k, <<>>, <<x>>) : x \in ValuesOf(t.ts[1], depth)}
      [] t.k \in {"tuple", "tuple_struct", "struct"} ->
            {Val(t.k, <<>>, fs) :
                fs \in Tuples([i \in 1..Len(t.ts) |-> ValuesOf(t.ts[i], depth + 1)])}
      [] t.k = "seq" ->
            {Val("seq", Known, fs) : fs \in SeqsUpTo(ValuesOf(t.ts[1], depth + 1), MaxSeqLen)}
      [] t.k = "map" ->
            {Val("map", Known, Flatten(es)) :
                es \in SeqsUpTo(Tuples(<<ValuesOf(t.ts[1], depth + 2),
                                         ValuesOf(t.ts[2], depth + 2)>>), MaxSeqLen)}
      [] t.k = "enum" ->
            UNION {{Val(t.ts[i].k, NatToBits(i - 1, 32), fs) :
                        fs \in Tuples([j \in 1..Len(t.ts[i].ts) |->
                                          ValuesOf(t.ts[i].ts[j], depth + 1)])} :
                   i \in 1..Len(t.ts)}

Prim(k) == Shape(k, <<>>)

\* enum BasicEnum { Unit, Newtype(u16), Tuple(u16, u8), Struct { x: u8, y: u8 } }
BasicEnum ==
    Shape("enum", << Shape("unit_variant", <<>>),
                     Shape("newtype_variant", <<Prim("u16")>>),
                     Shape("tuple_variant", <<Prim("u16"), Prim("u8")>>),
                     Shape("struct_variant", <<Prim("u8"), Prim("u8")>> ) >>)

\* the shapes without a wide signed integer
UnsignedShapes ==
    {Prim(k) : k \in {"bool", "u8", "u16", "u32", "u64", "u128", "i8", "unit", "unit_struct",
                      "char", "string", "byte_buf"}}
      \cup { Shape("option", <<Prim("u8")>>),
             Shape("option", <<Prim("u64")>>),
             Shape("option", <<Shape("option", <<Prim("bool")>>)>>),
             Shape("newtype_struct", <<Prim("u8")>>),
             Shape("tuple", <<Prim("u8"), Prim("u16"), Prim("u8")>>),
             Shape("tuple_struct", <<Prim("u8"), Prim("u16"), Prim("u8")>>),
             Shape("struct", <<Prim("u64"), Prim("bool"), Prim("u32")>>),
             Shape("tuple", <<Shape("seq", <<Prim("u8")>>), Prim("u8")>>),
             Shape("seq", <<Prim("u8")>>),
             Shape("seq", <<Prim("u16")>>),
             Shape("seq", <<Prim("unit")>>),
             Shape("seq", <<Shape("option", <<Prim("u8")>>)>>),
             Shape("map", <<Prim("u8"), Prim("u16")>>),
             BasicEnum }

SignedShapes ==
    {Prim(k) : k \in WideSignedKinds}
      \cup { Shape("tuple", <<Prim("i16"), Prim("u8")>>),
             Shape("option", <<Prim("i32")>>) }

Shapes == UnsignedShapes \cup SignedShapes

\* a byte buffer whose consumer asks the reader for a string
BlobsAsStrings ==
    {[t |-> Prim("string"), v |-> v] : v \in ValuesOf(Prim("byte_buf"), 0)}

\* the value v, a sequence or map, from an iterator without a size hint
Unsized(v) == Val(v.k, Unknown, v.fs)

\* sequences and maps without a size hint, alone and as the second field of a
\* tuple
UnsizedValues ==
    UNION {{[t |-> t, v |-> Unsized(v)] : v \in ValuesOf(t, 0)} :
              t \in {Shape("seq", <<Prim("u8")>>), Shape("map", <<Prim("u8"), Prim("u16")>>)}}
      \cup {[t |-> Shape("tuple", <<Prim("u8"), Shape("seq", <<Prim("u8")>>)>>),
             v |-> Val("tuple", <<>>, <<x, Unsized(y)>>)] :
               x \in ValuesOf(Prim("u8"), 1), y \in ValuesOf(Shape("seq", <<Prim("u8")>>), 1)}

\* a value with the shape its consumer asks the reader for
TypedValues ==
    UNION {{[t |-> t, v |-> v] : v \in ValuesOf(t, 0)} : t \in Shapes}
      \cup BlobsAsStrings
      \cup UnsizedValues

\* the bytes that follow a written value in a source with trailing data
TrailBytes == {0, 255}

Trails == SeqsUpTo(TrailBytes, MaxTrail) \ {<<>>}

\* sources that were not written by the writer: for a bool every byte, alone
\* and followed by another byte; for an Option<u8> every tag byte, alone,
\* followed by a payload byte and followed by two bytes; for a char the 3
\* little-endian bytes of values around the surrogates and the greatest code
\* point, alone, followed by another byte and cut short; for a string or byte
\* buffer lengths that the source does not hold
\* the requests of a consumer that does not name the shape it reads
ShapeFreeKinds == {"any", "identifier", "ignored_any"}

RawSources(t) ==
    CASE t.k = "bool" -> {<<>>} \cup {<<b>> : b \in 0..255} \cup {<<b, 0>> : b \in 0..255}
      [] t.k = "option" ->
            {<<>>} \cup {<<b>> : b \in 0..255} \cup {<<b, 123>> : b \in 0..255}
              \cup {<<b, 123, 0>> : b \in 0..255}
      [] t.k = "char" ->
            UNION {{bs, bs \o <<255>>, SubSeq(bs, 1, 2)} :
                      bs \in {SubSeq(to_le_bytes(NatToBits(c, 32)), 1, 3) :
                                 c \in CharPoints \cup {55296, 56319, 57343, 1114112,
                                                        16777215}}}
      [] t.k \in {"string", "byte_buf"} ->
            { <<2, 65>>, <<254, 255, 255, 255, 255, 255, 255, 255>>,
              <<255, 127, 255, 255, 255, 255, 255, 255, 255, 65>>,
              <<255, 128, 0, 0, 0, 0, 0, 0, 0, 65>>,
              <<255, 255, 255, 255, 255, 255, 255, 255, 255>> }
      [] t.k \in ShapeFreeKinds \cup {"tuple"} ->
            {<<>>, <<0>>, <<5>>, <<5, 9>>, <<5, 9, 1>>, <<1, 7, 9>>, <<2, 7, 9>>}
      [] t.k = "enum" ->
            {<<0>>, <<3, 1, 2>>, <<4>>, <<127>>, <<128, 4>>,
             <<255, 0, 0, 0, 0, 255, 255, 255, 255>>,
             <<255, 0, 0, 0, 1, 0, 0, 0, 0>>,
             <<255, 0, 0, 0, 1, 0, 0, 0, 1, 7>>,
             <<255, 0, 0, 0, 1, 0, 0, 0, 4>>,
             <<255, 128, 0, 0, 0, 0, 0, 0, 2, 7, 9>>}
      [] t.k = "seq" -> {<<2, 1, 2, 0>>, <<2, 2, 1>>, <<1, 2>>, <<3, 1, 0>>, <<1, 0, 4>>}
      [] t.k = "map" -> {<<1, 5, 2, 9>>, <<2, 5, 1, 6, 3, 7>>, <<2, 5, 1, 6>>, <<1, 5, 0, 4>>}

\* the shapes read from a hand-written source, a shape-free request alone
\* and after a u8 among them
RawShapes ==
    {Prim("bool"), Shape("option", <<Prim("u8")>>), Prim("char"), Prim("string"),
     Prim("byte_buf")}
      \cup {Prim(k) : k \in ShapeFreeKinds}
      \cup {Shape("tuple", <<Prim("u8"), Prim(k)>>) : k \in ShapeFreeKinds}
      \cup {Shape("tuple", <<Prim("bool"), Prim("u8")>>), Shape("seq", <<Prim("bool")>>),
             Shape("map", <<Prim("u8"), Prim("bool")>>), BasicEnum}

RawInputs == UNION {{[t |-> t, r |-> x] : x \in RawSources(t)} : t \in RawShapes}

(***************************************************************************)
(* The state: one encode call and one decode call on a sink and a source.  *)
(***************************************************************************)
VARIABLES
    pc,       \* "idle", "written" (the sink holds an encoding), "fed" (the
              \* source is set up), "done" (the decode call returned)
    api,      \* the entry points in use: "serde" (to_writer / from_reader) or
              \* "varuint" (encode_u64 / decode_u64)
    value,    \* the value handed to the writer or encoded by the test harness
    shape,    \* the shape the consumer asks the reader for
    w,        \* the sink: the bytes written
    flushes,  \* the number of times the sink was flushed
    wres,     \* the result of the encode call: "unset", "Ok" or the error
    src,      \* the source as it was set up, before any read
    r,        \* the source: the bytes not yet read
    fed,      \* how the source was set up: "unset", "exact", "prefix",
              \* "trailing", "le", "varint"
    result    \* the result of the decode call: [ok, v, err]

vars == <<pc, api, value, shape, w, flushes, wres, src, r, fed, result>>

NoResult == [ok |-> FALSE, v |-> NoValue, err |-> "unset"]

Init ==
    /\ pc = "idle"
    /\ api = "serde"
    /\ value = NoValue
    /\ shape = Prim("unit")
    /\ w = <<>>
    /\ flushes = 0
    /\ wres = "unset"
    /\ src = <<>>
    /\ r = <<>>
    /\ fed = "unset"
    /\ result = NoResult

\* to_writer(&mut w, value) on an empty Vec
ToWriter ==
    /\ pc = "idle"
    /\ \E tv \in TypedValues : \E out \in {to_writer(tv.v)} :
          /\ value' = tv.v
          /\ shape' = tv.t
          /\ w' = out.w
          /\ flushes' = out.flushes
          /\ wres' = IF out.err = "none" THEN "Ok" ELSE out.err
    /\ pc' = "written"
    /\ api' = "serde"
    /\ UNCHANGED <<src, r, fed, result>>

\* to_writer(&mut buf[..room], value) on a slice too short for the value
ToWriterSlice ==
    /\ pc = "idle"
    /\ \E tv \in TypedValues : \E room \in 0..(Len(Serialize(tv.v).w) - 1) :
       \E out \in {to_writer_slice(room, tv.v)} :
          /\ value' = tv.v
          /\ shape' = tv.t
          /\ w' = out.w
          /\ flushes' = out.flushes
          /\ wres' = out.err
    /\ pc' = "refused"
    /\ api' = "serde"
    /\ UNCHANGED <<src, r, fed, result>>

\* to_writer(w, value) on a sink that takes every byte and fails to flush
ToWriterUnflushable ==
    /\ pc = "idle"
    /\ \E tv \in TypedValues : \E out \in {to_writer_unflushable(tv.v)} :
          /\ value' = tv.v
          /\ shape' = tv.t
          /\ w' = out.w
          /\ flushes' = out.flushes
          /\ wres' = out.err
          /\ pc' = IF out.err = "IO" THEN "refused" ELSE "written"
    /\ api' = "serde"
    /\ UNCHANGED <<src, r, fed, result>>

\* encode_u64(&mut buf, v) on an empty Vec
EncodeU64 ==
    /\ pc = "idle"
    /\ \E n \in Patterns(64) :
          /\ value' = Val("u64", n, <<>>)
          /\ w' = encode_u64(n)
    /\ shape' = Prim("u64")
    /\ wres' = "Ok"
    /\ pc' = "written"
    /\ api' = "varuint"
    /\ UNCHANGED <<flushes, src, r, fed, result>>

\* encode_u128(&mut buf, v) on an empty Vec
EncodeU128 ==
    /\ pc = "idle"
    /\ \E n \in Patterns(128) :
          /\ value' = Val("u128", n, <<>>)
          /\ w' = encode_u128(n)
    /\ shape' = Prim("u128")
    /\ wres' = "Ok"
    /\ pc' = "written"
    /\ api' = "varuint128"
    /\ UNCHANGED <<flushes, src, r, fed, result>>

\* the source is the written buffer (bs.as_slice())
FeedExact ==
    /\ pc = "written"
    /\ wres = "Ok"
    /\ r' = w
    /\ src' = r'
    /\ fed' = "exact"
    /\ pc' = "fed"
    /\ UNCHANGED <<api, value, shape, w, flushes, wres, result>>

\* the source is a proper prefix of the written buffer
FeedPrefix ==
    /\ pc = "written"
    /\ wres = "Ok"
    /\ \E cut \in 0..(Len(w) - 1) : r' = SubSeq(w, 1, cut)
    /\ src' = r'
    /\ fed' = "prefix"
    /\ pc' = "fed"
    /\ UNCHANGED <<api, value, shape, w, flushes, wres, result>>

\* the source is the written buffer followed by more bytes
FeedTrailing ==
    /\ pc = "written"
    /\ wres = "Ok"
    /\ \E extra \in Trails : r' = w \o extra
    /\ src' = r'
    /\ fed' = "trailing"
    /\ pc' = "fed"
    /\ UNCHANGED <<api, value, shape, w, flushes, wres, result>>

\* the source is the little-endian two's complement bytes of a signed value
\* (to_be.to_le_bytes())
FeedLe ==
    /\ pc = "idle"
    /\ \E k \in SignedKinds : \E n \in SignedPatterns(Width(k)) :
          /\ value' = Val(k, n, <<>>)
          /\ shape' = Prim(k)
          /\ r' = to_le_bytes(n)
    /\ src' = r'
    /\ fed' = "le"
    /\ pc' = "fed"
    /\ api' = "serde"
    /\ UNCHANGED <<w, flushes, wres, result>>

\* the source is the varint of a 64-bit value, asked for as a u16 or a u32
FeedVarint ==
    /\ pc = "idle"
    /\ \E n \in Patterns(64) : \E k \in {"u16", "u32"} :
          /\ value' = Val("u64", n, <<>>)
          /\ shape' = Prim(k)
          /\ r' = encode_u64(n)
    /\ src' = r'
    /\ fed' = "varint"
    /\ pc' = "fed"
    /\ api' = "serde"
    /\ UNCHANGED <<w, flushes, wres, result>>

\* the source is a byte sequence from elsewhere (a hand-written slice)
FeedRaw ==
    /\ pc = "idle"
    /\ \E in \in RawInputs :
          /\ shape' = in.t
          /\ r' = in.r
    /\ src' = r'
    /\ fed' = "raw"
    /\ pc' = "fed"
    /\ api' = "serde"
    /\ UNCHANGED <<value, w, flushes, wres, result>>

\* the bytes that follow the head byte of a hand-written varint: none to nine
\* of them, zero bytes (the overlong forms) or not
VarintBodies ==
    {SubSeq(bs, 1, n) : n \in 0..9,
                        bs \in {<<0, 0, 0, 0, 0, 0, 0, 0, 0>>,
                                <<129, 2, 3, 4, 5, 6, 7, 255, 200>>}}

\* the source of decode_u64 is a byte sequence from elsewhere: any head byte
\* and what follows it
FeedRawVarint ==
    /\ pc = "idle"
    /\ \/ r' = <<>>
       \/ \E h \in 0..255 : \E body \in VarintBodies : r' = <<h>> \o body
    /\ src' = r'
    /\ shape' = Prim("u64")
    /\ fed' = "raw"
    /\ pc' = "fed"
    /\ api' = "varuint"
    /\ UNCHANGED <<value, w, flushes, wres, result>>

\* Deserializer::new(r) on a byte slice, for calls of end() alone
NewDeserializer ==
    /\ pc = "idle"
    /\ r' \in {<<>>, <<7>>, <<7, 8>>, <<7, 8, 9>>}
    /\ src' = r'
    /\ shape' = Prim("unit")
    /\ fed' = "raw"
    /\ pc' = "fed"
    /\ api' = "end"
    /\ UNCHANGED <<value, w, flushes, wres, result>>

\* Deserializer::new(r) on a source whose reads fail with an error that is not
\* the end of the input (a broken pipe)
NewDeserializerBroken ==
    /\ pc = "idle"
    /\ r' \in {<<>>, <<7>>}
    /\ src' = r'
    /\ shape' = Prim("unit")
    /\ fed' = "broken"
    /\ pc' = "fed"
    /\ api' = "end"
    /\ UNCHANGED <<value, w, flushes, wres, result>>

\* what a failed read_exact leaves of the source is unspecified: anything
\* between nothing consumed and everything consumed
SourceAfter(d) ==
    IF d.ok \/ d.err # "UnexpectedEof" THEN {d.r} ELSE {d.r, <<>>}

\* from_reader(r)
FromReader ==
    /\ pc = "fed"
    /\ api = "serde"
    /\ \E d \in {from_reader(shape, r)} :
          /\ result' = [ok |-> d.ok, v |-> d.v, err |-> d.err]
          /\ r' \in SourceAfter(d)
    /\ pc' = "done"
    /\ UNCHANGED <<api, value, shape, w, flushes, wres, src, fed>>

\* decode_u64(r)
DecodeU64 ==
    /\ pc = "fed"
    /\ api = "varuint"
    /\ \E d \in {decode_u64(r)} :
          /\ result' = [ok |-> d.ok,
                        v |-> IF d.ok THEN Val("u64", d.v, <<>>) ELSE NoValue,
                        err |-> d.err]
          /\ r' \in SourceAfter(d)
    /\ pc' = "done"
    /\ UNCHANGED <<api, value, shape, w, flushes, wres, src, fed>>

\* decode_u128(r)
DecodeU128 ==
    /\ pc = "fed"
    /\ api = "varuint128"
    /\ \E d \in {decode_u128(r)} :
          /\ result' = [ok |-> d.ok,
                        v |-> IF d.ok THEN Val("u128", d.v, <<>>) ELSE NoValue,
                        err |-> d.err]
          /\ r' \in SourceAfter(d)
    /\ pc' = "done"
    /\ UNCHANGED <<api, value, shape, w, flushes, wres, src, fed>>

\* deserializer.end(), the first call or a further one
End ==
    /\ pc \in {"fed", "done"}
    /\ api = "end"
    /\ \E d \in {IF fed = "broken" THEN end_match(Err("BrokenPipe", r))
                  ELSE DeserializerEnd(r)} :
          /\ result' = [ok |-> d.ok, v |-> d.v, err |-> d.err]
          /\ r' \in SourceAfter(d)
    /\ pc' = "done"
    /\ UNCHANGED <<api, value, shape, w, flushes, wres, src, fed>>

Next ==
    \/ ToWriter
    \/ ToWriterSlice
    \/ ToWriterUnflushable
    \/ EncodeU64
    \/ EncodeU128
    \/ FeedExact
    \/ FeedPrefix
    \/ FeedTrailing
    \/ FeedLe
    \/ FeedVarint
    \/ FeedRaw
    \/ FeedRawVarint
    \/ FromReader
    \/ DecodeU64
    \/ DecodeU128
    \/ NewDeserializer
    \/ NewDeserializerBroken
    \/ End

Spec == Init /\ [][Next]_vars

TypeOK ==
    /\ pc \in {"idle", "written", "refused", "fed", "done"}
    /\ api \in {"serde", "varuint", "varuint128", "end"}
    /\ \A i \in 1..Len(w) : w[i] \in 0..255
    /\ \A i \in 1..Len(r) : r[i] \in 0..255
    /\ flushes \in 0..1

(***************************************************************************)
(* Properties.                                                             *)
(***************************************************************************)
\* every node of the shape t has a kind in K
RECURSIVE BuiltFrom(_, _)
BuiltFrom(t, K) == t.k \in K /\ \A i \in 1..Len(t.ts) : BuiltFrom(t.ts[i], K)

RoundTripKinds ==
    {"bool", "u8", "u16", "u32", "u64", "option", "tuple", "tuple_struct", "struct",
     "unit_struct", "newtype_struct", "seq", "map", "enum",
     "unit_variant", "newtype_variant", "tuple_variant", "struct_variant"}

TupleKinds == {"tuple", "tuple_struct", "struct"}

\* C1: for every value built from bool, u8, u16, u32, u64, Option, tuples and
\* structs, enums and length-prefixed sequences and maps, from_reader on the
\* bytes to_writer produced returns the value, and the reader consumes exactly
\* the bytes written.
C1_RoundTrip ==
    (pc = "done" /\ api = "serde" /\ fed = "exact" /\ BuiltFrom(shape, RoundTripKinds))
        => (result.ok /\ result.v = value /\ src = w /\ r = <<>>)

C1_Witness ==
    /\ pc = "done" /\ api = "serde" /\ fed = "exact"
    /\ value.k = "map" /\ Len(value.fs) = 4
    /\ result.ok /\ result.v = value

\* C2: for every signed value of type i16, i32, i64 or i128, from_reader on
\* the bytes to_writer produced returns the value.
C2_SignedRoundTrip ==
    (pc = "done" /\ api = "serde" /\ fed = "exact" /\ shape.k \in WideSignedKinds)
        => (result.ok /\ result.v = value)

\* C3: decode_u64 on the bytes encode_u64 wrote for n returns n and consumes
\* exactly those bytes, whatever follows them in the source.
C3_VarintRoundTrip ==
    (pc = "done" /\ api = "varuint" /\ fed \in {"exact", "trailing"})
        => (result.ok /\ result.v = value /\ src = w \o r)

C3_Witness ==
    /\ pc = "done" /\ api = "varuint" /\ fed = "trailing"
    /\ Len(w) = 9 /\ result.v = value /\ r # <<>>

\* the number of leading one bits of a byte
RECURSIVE LeadingOnes(_)
LeadingOnes(bits) ==
    IF bits = <<>> \/ Head(bits) = 0 THEN 0 ELSE 1 + LeadingOnes(Tail(bits))

\* n < 2^(7k) for a 64-bit n and k in 1..8
Below(n, k) == SubSeq(n, 1, 64 - 7 * k) = Zeros(64 - 7 * k)

\* the least k in 1..8 with n < 2^(7k), 9 when n >= 2^56
ShortestLen(n) ==
    IF \E k \in 1..8 : Below(n, k)
    THEN CHOOSE k \in 1..8 : Below(n, k) /\ \A j \in 1..(k - 1) : ~Below(n, j)
    ELSE 9

\* bs is the k-byte form of n: k - 1 leading one bits in the first byte (0xFF
\* for the 9-byte form), then a zero bit and the low 7k bits of n, big-endian
IsFormOf(bs, n, k) ==
    /\ Len(bs) = k
    /\ IF k = 9
       THEN bs[1] = 255 /\ from_be_bytes(SubSeq(bs, 2, 9)) = n
       ELSE /\ LeadingOnes(BitsOfByte(bs[1])) = k - 1
            /\ SubSeq(from_be_bytes(bs), k + 1, 8 * k) = SubSeq(n, 64 - 7 * k + 1, 64)

\* C4: encode_u64(n) emits the shortest form: k bytes for the least k in 1..8
\* with n < 2^(7k), 9 bytes when n >= 2^56; the first byte carries k - 1
\* leading one bits and the remaining bits hold n in big-endian order.
C4_ShortestForm ==
    (pc = "written" /\ api = "varuint") => IsFormOf(w, value.n, ShortestLen(value.n))

C4_Witness ==
    /\ pc = "written" /\ api = "varuint"
    /\ value.n = Zeros(8) \o Ones(56) /\ Len(w) = 8 /\ w[1] = 254

\* C5: from_reader returns IncompleteRead whenever a byte remains in the
\* source after the top-level value was decoded, and returns the value only
\* when the source is exactly exhausted.
C5_TrailingData ==
    (pc = "done" /\ api = "serde")
        => \A d \in {Deserialize(shape, src)} :
              /\ (d.ok /\ d.r # <<>>) => (~result.ok /\ result.err = "IncompleteRead")
              /\ result.ok => (d.ok /\ d.r = <<>> /\ result.v = d.v /\ r = <<>>)

C5_Witness ==
    /\ pc = "done" /\ api = "serde" /\ fed = "trailing"
    /\ shape = Prim("u8") /\ Len(src) = 2
    /\ ~result.ok /\ result.err = "IncompleteRead"

\* C6: for every value and every proper prefix of the bytes written for it,
\* the decode fails with an end-of-input error and never returns a value.
C6_TruncatedFails ==
    (pc = "done" /\ fed = "prefix") => (~result.ok /\ result.err = "UnexpectedEof")

\* zigzag(v) = v << 1 for v >= 0 and ((-v - 1) << 1) | 1 for v < 0; on a
\* two's complement bit vector -v - 1 is the complement of v
RefZigzag(v) ==
    IF v[1] = 0 THEN Tail(v) \o <<0>> ELSE Tail(Not(v)) \o <<1>>

\* the signed value an unsigned u stands for: u >> 1 for an even u and
\* !(u >> 1) for an odd u
RefUnzigzag(u) ==
    LET half == <<0>> \o SubSeq(u, 1, Len(u) - 1)
    IN  IF u[Len(u)] = 0 THEN half ELSE Not(half)

\* the mapping of the written value: no overflow, the values 0, -1 and 1 map
\* to 0, 1 and 2, and the value is recovered from its unsigned image, so that
\* no two values of the width share an image
ZigzagSound(v) ==
    LET wd == Len(v)
    IN  /\ ~zigzag(v).overflow
        /\ zigzag(v).u = RefZigzag(v)
        /\ v = Zeros(wd) => zigzag(v).u = NatToBits(0, wd)
        /\ v = Ones(wd) => zigzag(v).u = NatToBits(1, wd)
        /\ v = NatToBits(1, wd) => zigzag(v).u = NatToBits(2, wd)
        /\ RefUnzigzag(zigzag(v).u) = v

SignedWritten ==
    pc = "written" /\ api = "serde" /\ wres = "Ok" /\ value.k \in SignedKinds

\* C7 as stated: an i8 is written as one raw two's complement byte and every
\* wider signed v, i128 included, as the varint of zigzag(v); the mapping does
\* not overflow the width and is one-to-one.
C7_AsStated ==
    SignedWritten
        => IF value.k = "i8" THEN w = <<ByteOfBits(value.n)>>
           ELSE /\ ZigzagSound(value.n)
                /\ w = IF value.k = "i128"
                       THEN encode_u128(RefZigzag(value.n))
                       ELSE encode_u64(Zeros(64 - Len(value.n)) \o RefZigzag(value.n))

\* C7 amended: an i8 is written as one raw two's complement byte, an i16, i32
\* or i64 as the varint of zigzag(v), and an i128 as the varint of the low 64
\* bits of zigzag(v) followed by the varint of its high 64 bits; the mapping
\* does not overflow the width and is one-to-one.
C7_ZigzagWriter ==
    SignedWritten
        => IF value.k = "i8" THEN w = <<ByteOfBits(value.n)>>
           ELSE /\ ZigzagSound(value.n)
                /\ w = IF value.k = "i128"
                       THEN encode_u64(SubSeq(RefZigzag(value.n), 65, 128))
                              \o encode_u64(SubSeq(RefZigzag(value.n), 1, 64))
                       ELSE encode_u64(Zeros(64 - Len(value.n)) \o RefZigzag(value.n))

C7_Witness ==
    /\ SignedWritten
    /\ value.k = "i128" /\ value.n = IntMin(128)
    /\ Len(w) = 18

\* C8: for every signed value of width 8, 16, 32, 64 or 128, from_reader on
\* its little-endian two's complement bytes returns the value.
C8_LittleEndianSigned ==
    (pc = "done" /\ fed = "le") => (result.ok /\ result.v = value /\ r = <<>>)

C8_Witness ==
    /\ pc = "done" /\ fed = "le"
    /\ value.k = "i64" /\ value.n = IntMin(64)
    /\ result.ok /\ result.v = value

\* C9: decoding a u16 (a u32) reads one varint as a 64-bit value and returns it
\* unchanged when it is at most 65535 (2^32 - 1); a greater value fails with an
\* invalid-value error and is never returned truncated.
C9_RangeCheck ==
    (pc = "done" /\ fed = "varint")
        => LET wd == Width(shape.k)
           IN  /\ r = <<>>
               /\ IF SubSeq(value.n, 1, 64 - wd) = Zeros(64 - wd)
                  THEN /\ result.ok
                       /\ result.v.k = shape.k
                       /\ Zeros(64 - wd) \o result.v.n = value.n
                  ELSE ~result.ok /\ result.err = "InvalidValue"

C9_Witness ==
    /\ pc = "done" /\ fed = "varint"
    /\ shape.k = "u16" /\ value.n = Zeros(47) \o <<1>> \o Zeros(16)
    /\ ~result.ok /\ result.err = "InvalidValue"

\* the fields of the shapes ts read one after the other from r, with nothing
\* read before, between or after them
RECURSIVE ReadFields(_, _, _)
ReadFields(ts, rest, acc) ==
    IF ts = <<>> THEN Ok(acc, rest)
    ELSE Try(Deserialize(Head(ts), rest),
             LAMBDA d : ReadFields(Tail(ts), d.r, Append(acc, d.v)))

\* the tuple (1u8, 1024u16, 2u8)
ExampleTuple ==
    Val("tuple", <<>>, << Val("u8", NatToBits(1, 8), <<>>),
                          Val("u16", NatToBits(1024, 16), <<>>),
                          Val("u8", NatToBits(2, 8), <<>>) >>)

\* C10: the encoding of a tuple, tuple struct or struct is the concatenation
\* of its fields' encodings in order, with no length prefix; (1u8, 1024u16,
\* 2u8) encodes to [0x01, 0x84, 0x00, 0x02]; decoding reads exactly the
\* caller-supplied number of fields and no length.
C10_TupleLayout ==
    /\ (pc = "written" /\ api = "serde" /\ wres = "Ok" /\ value.k \in TupleKinds)
          => w = Flatten([i \in 1..Len(value.fs) |-> Serialize(value.fs[i]).w])
    /\ (pc = "written" /\ api = "serde" /\ value = ExampleTuple)
          => w = <<1, 132, 0, 2>>
    /\ (pc = "done" /\ api = "serde" /\ shape.k \in TupleKinds)
          => \A c \in {ReadFields(shape.ts, src, <<>>)} :
                /\ result.ok <=> (c.ok /\ c.r = <<>>)
                /\ result.ok => (result.v.fs = c.v /\ Len(result.v.fs) = Len(shape.ts))

C10_Witness ==
    /\ pc = "done" /\ api = "serde" /\ fed = "exact"
    /\ value = ExampleTuple /\ w = <<1, 132, 0, 2>>
    /\ result.ok /\ result.v = value

\* the Access of a sequence after each call of next_element_seed a visitor
\* makes on it, up to and including the call that yields None or fails
RECURSIVE SeqAccessTrace(_, _, _)
SeqAccessTrace(t, len, rest) ==
    With(next_element_seed(t, len, rest),
         LAMBDA e : <<[some |-> e.some, ok |-> e.d.ok, v |-> e.d.v, len |-> e.len,
                       r |-> e.d.r]>>
                      \o (IF e.some /\ e.d.ok THEN SeqAccessTrace(t, e.len, e.d.r)
                          ELSE <<>>))

\* the Access of a map after each next_key_seed / next_value_seed pair, up to
\* and including the next_key_seed that yields None or the call that fails
RECURSIVE MapAccessTrace(_, _, _, _)
MapAccessTrace(kt, vt, len, rest) ==
    With(next_key_seed(kt, len, rest),
         LAMBDA e :
            IF ~(e.some /\ e.d.ok)
            THEN <<[some |-> e.some, ok |-> e.d.ok, v |-> <<>>, len |-> e.len, r |-> e.d.r]>>
            ELSE With(next_value_seed(vt, e.d.r),
                      LAMBDA val :
                         <<[some |-> TRUE, ok |-> val.ok, v |-> <<e.d.v, val.v>>,
                            len |-> e.len, r |-> val.r]>>
                           \o (IF val.ok THEN MapAccessTrace(kt, vt, e.len, val.r)
                               ELSE <<>>)))

\* the number of elements of a sequence, of entries of a map
Count(v) == IF v.k = "map" THEN Len(v.fs) \div 2 ELSE Len(v.fs)

\* the trace tr is that of an Access created with count elements left on the
\* source r0: count elements, the counter one lower after each, then None with
\* the counter at zero and the source untouched
YieldsExactly(tr, count, r0) ==
    /\ Len(tr) = count + 1
    /\ \A i \in 1..count :
          tr[i].some /\ tr[i].ok /\ tr[i].len = NatToBits(count - i, 64)
    /\ ~tr[count + 1].some
    /\ tr[count + 1].len = Zeros(64)
    /\ tr[count + 1].r = (IF count = 0 THEN r0 ELSE tr[count].r)

\* C11: a sequence, set or map is written as the varint of its element count
\* followed by its elements in order (key then value per map entry); on decode
\* the accessor yields exactly that many elements or pairs and then signals
\* exhaustion, its counter one lower after each element and never below zero,
\* and it reads no byte once exhausted.
C11_LengthPrefixed ==
    /\ (pc = "written" /\ api = "serde" /\ wres = "Ok" /\ value.k \in {"seq", "map"})
          => w = encode_u64(NatToBits(Count(value), 64))
                   \o Flatten([i \in 1..Len(value.fs) |-> Serialize(value.fs[i]).w])
    /\ (pc = "done" /\ api = "serde" /\ fed \in {"exact", "trailing"} /\ shape.k = "seq")
          => \A d \in {decode_u64(src)} :
                \A tr \in {SeqAccessTrace(shape.ts[1], d.v, d.r)} :
                   /\ d.ok /\ d.v = NatToBits(Count(value), 64)
                   /\ YieldsExactly(tr, Count(value), d.r)
                   /\ [i \in 1..Count(value) |-> tr[i].v] = value.fs
                   /\ next_element_seed(shape.ts[1], tr[Len(tr)].len, tr[Len(tr)].r)
                         = [some |-> FALSE, len |-> Zeros(64),
                            d |-> Ok(NoValue, tr[Len(tr)].r)]
    /\ (pc = "done" /\ api = "serde" /\ fed \in {"exact", "trailing"} /\ shape.k = "map")
          => \A d \in {decode_u64(src)} :
                \A tr \in {MapAccessTrace(shape.ts[1], shape.ts[2], d.v, d.r)} :
                   /\ d.ok /\ d.v = NatToBits(Count(value), 64)
                   /\ YieldsExactly(tr, Count(value), d.r)
                   /\ Flatten([i \in 1..Count(value) |-> tr[i].v]) = value.fs
                   /\ next_key_seed(shape.ts[1], tr[Len(tr)].len, tr[Len(tr)].r)
                         = [some |-> FALSE, len |-> Zeros(64),
                            d |-> Ok(NoValue, tr[Len(tr)].r)]

C11_Witness ==
    /\ pc = "done" /\ api = "serde" /\ fed = "exact"
    /\ shape = Shape("seq", <<Prim("u16")>>) /\ Len(value.fs) = 2
    /\ result.ok /\ result.v = value

VariantKinds == {"unit_variant", "newtype_variant", "tuple_variant", "struct_variant"}

\* C12: an enum value is written as the varint of its variant index followed
\* by the variant's payload laid out like a tuple (nothing for a unit variant,
\* the inner value for a newtype variant, the fields in order for tuple and
\* struct variants); decoding reads the index varint, selects that variant and
\* reads exactly that payload.
C12_EnumLayout ==
    /\ (pc = "written" /\ api = "serde" /\ wres = "Ok" /\ value.k \in VariantKinds)
          => /\ w = encode_u64(AsUnsigned(value.n, 64))
                      \o Flatten([i \in 1..Len(value.fs) |-> Serialize(value.fs[i]).w])
             /\ value.k = "unit_variant" => w = encode_u64(AsUnsigned(value.n, 64))
    /\ (pc = "done" /\ api = "serde" /\ fed \in {"exact", "trailing"} /\ shape.k = "enum")
          => \A d \in {decode_u64(src)} : \A e \in {Deserialize(shape, src)} :
                /\ d.ok /\ AsUnsigned(d.v, 32) = value.n
                /\ e.ok /\ e.v.k = shape.ts[VariantOf(shape.ts, value.n)].k
                /\ e.v = value
                /\ \A c \in {ReadFields(shape.ts[VariantOf(shape.ts, value.n)].ts,
                                        d.r, <<>>)} :
                      c.ok /\ c.v = e.v.fs /\ c.r = e.r
                /\ src = w \o e.r
                /\ fed = "exact" => (result.ok /\ result.v = value)

C12_Witness ==
    /\ pc = "done" /\ api = "serde" /\ fed = "exact"
    /\ shape = BasicEnum /\ value.k = "struct_variant" /\ Len(w) = 3
    /\ result.ok /\ result.v = value

\* the call from_reader(src) returned what the request d on src yields when
\* the source is exhausted after it, and d's error when d failed
ReturnedFrom(d) ==
    /\ result.ok <=> (d.ok /\ d.r = <<>>)
    /\ result.ok => result.v = d.v
    /\ ~d.ok => result.err = d.err
    /\ (d.ok /\ d.r # <<>>) => result.err = "IncompleteRead"

\* C13: None is written as the one byte 0 and Some(x) as the byte 1 followed
\* by the encoding of x (Some(123u8) is [1, 123]); decoding an Option reads one
\* tag byte, returns None for 0 without reading further, decodes the inner
\* value for 1, and fails with an invalid-value error for a tag in 2..255.
C13_OptionTag ==
    /\ (pc = "written" /\ api = "serde" /\ wres = "Ok" /\ value.k = "option")
          => /\ w = IF value.fs = <<>> THEN <<0>> ELSE <<1>> \o Serialize(value.fs[1]).w
             /\ value = Val("option", <<>>, <<Val("u8", NatToBits(123, 8), <<>>)>>)
                   => w = <<1, 123>>
    /\ (pc = "done" /\ api = "serde" /\ fed = "raw" /\ shape.k = "option")
          => \A d \in {Deserialize(shape, src)} :
                /\ ReturnedFrom(d)
                /\ src = <<>> => (~d.ok /\ d.err = "UnexpectedEof")
                /\ (src # <<>> /\ src[1] = 0)
                      => (d.ok /\ d.v = Val("option", <<>>, <<>>) /\ d.r = Tail(src))
                /\ (src # <<>> /\ src[1] = 1)
                      => \A x \in {Deserialize(shape.ts[1], Tail(src))} :
                            IF x.ok
                            THEN d.ok /\ d.v = Val("option", <<>>, <<x.v>>) /\ d.r = x.r
                            ELSE ~d.ok /\ d.err = x.err
                /\ (src # <<>> /\ src[1] >= 2)
                      => (~d.ok /\ d.err = "InvalidValue" /\ d.r = Tail(src))

C13_Witness ==
    /\ pc = "done" /\ api = "serde" /\ fed = "raw"
    /\ shape.k = "option" /\ src = <<255, 123>>
    /\ ~result.ok /\ result.err = "InvalidValue"

\* C14: decoding a boolean reads exactly one byte: 0 yields false, 1 yields
\* true, and every byte in 2..255 fails with an invalid-value error.
C14_BoolDomain ==
    (pc = "done" /\ api = "serde" /\ fed = "raw" /\ shape.k = "bool")
        => \A d \in {Deserialize(shape, src)} :
              /\ ReturnedFrom(d)
              /\ src = <<>> => (~d.ok /\ d.err = "UnexpectedEof")
              /\ src # <<>> =>
                    /\ d.r = Tail(src)
                    /\ src[1] = 0 => (d.ok /\ d.v = Val("bool", <<0>>, <<>>))
                    /\ src[1] = 1 => (d.ok /\ d.v = Val("bool", <<1>>, <<>>))
                    /\ src[1] >= 2 => (~d.ok /\ d.err = "InvalidValue")

C14_Witness ==
    /\ pc = "done" /\ api = "serde" /\ fed = "raw"
    /\ shape.k = "bool" /\ src = <<2>>
    /\ ~result.ok /\ result.err = "InvalidValue"

\* the number whose 3 little-endian bytes open the source bs
CodeOf(bs) == bs[1] + 256 * bs[2] + 65536 * bs[3]

\* C15: a char is written as the 3 low bytes of its code point in
\* little-endian order; decoding reads exactly 3 bytes, zero-extends them to
\* 32 bits and fails with an invalid-value error when the result is a
\* surrogate (0xD800..0xDFFF) or above 0x10FFFF; every Unicode scalar value
\* round-trips.
C15_CharLayout ==
    /\ (pc = "written" /\ api = "serde" /\ wres = "Ok" /\ value.k = "char")
          => /\ Len(w) = 3
             /\ NatToBits(CodeOf(w), 32) = value.n
    /\ (pc = "done" /\ api = "serde" /\ fed = "exact" /\ shape.k = "char")
          => (result.ok /\ result.v = value /\ r = <<>>)
    /\ (pc = "done" /\ api = "serde" /\ fed \in {"raw", "trailing"} /\ shape.k = "char")
          => \A d \in {Deserialize(shape, src)} :
                /\ ReturnedFrom(d)
                /\ Len(src) < 3 => (~d.ok /\ d.err = "UnexpectedEof")
                /\ Len(src) >= 3 =>
                      /\ d.r = SubSeq(src, 4, Len(src))
                      /\ IF CodeOf(src) > 1114111 \/ CodeOf(src) \in 55296..57343
                         THEN ~d.ok /\ d.err = "InvalidValue"
                         ELSE d.ok /\ d.v = Val("char", NatToBits(CodeOf(src), 32), <<>>)

C15_Witness ==
    /\ pc = "done" /\ api = "serde" /\ fed = "raw"
    /\ shape.k = "char" /\ src = <<0, 216, 0>>
    /\ ~result.ok /\ result.err = "InvalidValue"

\* C16: a string or byte buffer is a varint byte length L followed by exactly
\* L raw bytes; decoding such a blob as a string fails with an error when the
\* L bytes are not valid UTF-8, while decoding the same input as a byte buffer
\* succeeds and returns the L bytes unchanged.
C16_Blob ==
    /\ (pc = "written" /\ api = "serde" /\ wres = "Ok" /\ value.k \in {"string", "bytes"})
          => w = encode_u64(NatToBits(Len(value.n), 64)) \o value.n
    /\ (pc = "done" /\ api = "serde" /\ fed \in {"exact", "trailing"}
          /\ value.k \in {"string", "bytes"})
          => /\ \A d \in {Deserialize(Prim("byte_buf"), src)} :
                   d.ok /\ d.v = Val("bytes", value.n, <<>>) /\ src = w \o d.r
             /\ \A d \in {Deserialize(Prim("string"), src)} :
                   /\ value.n \in Utf8Samples
                         => (d.ok /\ d.v = Val("string", value.n, <<>>) /\ src = w \o d.r)
                   /\ value.n \in NonUtf8Samples => (~d.ok /\ d.err = "InvalidUtf8")
             /\ ReturnedFrom(Deserialize(shape, src))

C16_Witness ==
    /\ pc = "done" /\ api = "serde" /\ fed = "exact"
    /\ shape.k = "string" /\ value = Val("bytes", <<237, 160, 128>>, <<>>)
    /\ ~result.ok /\ result.err = "InvalidUtf8"

\* C17: serialize_seq and serialize_map called without a known element count
\* fail with the NoSequenceSize error, and that call writes no byte to the
\* sink: the sink holds what was written before the call and nothing more.
C17_NoSequenceSize ==
    /\ serialize_seq(<<>>) = Failed("NoSequenceSize")
    /\ serialize_map(<<>>) = Failed("NoSequenceSize")
    /\ (pc = "written" /\ api = "serde" /\ value.k \in {"seq", "map"} /\ value.n = Unknown)
          => (wres = "NoSequenceSize" /\ w = <<>> /\ flushes = 0)
    /\ (pc = "written" /\ api = "serde" /\ value.k = "tuple" /\ Len(value.fs) = 2
          /\ value.fs[2].k = "seq" /\ value.fs[2].n = Unknown)
          => (wres = "NoSequenceSize" /\ w = Serialize(value.fs[1]).w /\ flushes = 0)
    /\ (pc = "written" /\ api = "serde" /\ wres = "NoSequenceSize")
          => \E i \in 0..Len(value.fs) :
                (IF i = 0 THEN value ELSE value.fs[i]).n = Unknown

C17_Witness ==
    /\ pc = "written" /\ api = "serde"
    /\ value.k = "map" /\ value.n = Unknown /\ Len(value.fs) = 4
    /\ wres = "NoSequenceSize" /\ w = <<>>

\* C18: every failure of the sink during to_writer, and of the source during
\* from_reader, is returned to the caller as an error result, for every
\* primitive including u128 and i128: no write and no read panics.
C18_NoPanic ==
    /\ (pc = "refused" => wres = "IO")
    /\ (pc = "done" /\ api = "serde" /\ ~result.ok) => result.err # "Panic"

\* some node of the shape t has a kind in K
RECURSIVE Mentions(_, _)
Mentions(t, K) == t.k \in K \/ \E i \in 1..Len(t.ts) : Mentions(t.ts[i], K)

\* the calls that write no 128-bit integer return the failure of the sink,
\* and the calls that read no string and no byte buffer never panic
C18_OtherKindsReturn ==
    /\ (pc = "refused" /\ ~Mentions(shape, {"u128", "i128"})) => wres = "IO"
    /\ (pc = "done" /\ api = "serde" /\ ~result.ok
          /\ ~Mentions(shape, {"string", "byte_buf"})) => result.err # "Panic"

\* C19: a u128 is written as the varint of its low 64 bits followed by the
\* varint of its high 64 bits, 2 to 18 bytes in all, and reading a u128 takes
\* two varints in that order and returns (upper << 64) | lower, so that every
\* u128 written is read back.
C19_U128Halves ==
    /\ (pc \in {"written", "fed", "done"} /\ api = "serde" /\ value.k = "u128" /\ wres = "Ok")
          => /\ w = encode_u64(SubSeq(value.n, 65, 128)) \o encode_u64(SubSeq(value.n, 1, 64))
             /\ Len(w) \in 2..18
    /\ (pc = "done" /\ api = "serde" /\ value.k = "u128" /\ shape.k = "u128" /\ fed = "exact")
          => /\ result.ok /\ result.v = value /\ r = <<>>
             /\ \E lower \in {decode_u64(src)} : \E upper \in {decode_u64(lower.r)} :
                   /\ lower.ok /\ upper.ok
                   /\ result.v.n = upper.v \o lower.v
                   /\ lower.v = SubSeq(value.n, 65, 128)

C19_Witness ==
    /\ pc = "done" /\ api = "serde" /\ fed = "exact" /\ shape.k = "u128"
    /\ Len(w) = 10 /\ w[1] = 255 /\ w[10] = 1
    /\ result.ok /\ result.v = value

\* C20: for every unsigned 128-bit n, decode_u128 on the bytes encode_u128
\* wrote for n returns n and consumes exactly those bytes: no high-order bit
\* is lost for any magnitude, 2^56 to 2^128 - 1 included.
C20_U128VarintRoundTrip ==
    (pc = "done" /\ api = "varuint128" /\ fed \in {"exact", "trailing"})
        => (result.ok /\ result.v = value /\ src = w \o r)

C20_Witness ==
    /\ pc = "done" /\ api = "varuint128" /\ fed = "exact"
    /\ value.n[1] = 1 /\ Len(w) = 17
    /\ result.ok /\ result.v = value /\ r = <<>>

\* C21: to_writer flushes the sink exactly once, after every byte of the
\* value's encoding has been written, and writes nothing but that encoding;
\* a failure of the flush is returned as an I/O error, and when the
\* serialization of the value fails, or the sink refuses a byte, the sink is
\* not flushed.
C21_FlushOnce ==
    (pc \in {"written", "refused"} /\ api = "serde")
        => \E s \in {Serialize(value)} :
              /\ wres = "Ok" => (flushes = 1 /\ s.err = "none" /\ w = s.w)
              /\ flushes = 1 => (s.err = "none" /\ w = s.w /\ wres \in {"Ok", "IO"})
              /\ (s.err # "none" \/ w # s.w) => flushes = 0
              /\ (pc = "refused" /\ w = s.w) => (flushes = 1 /\ wres = "IO")
              /\ (s.err # "none" /\ Len(w) = Len(s.w)) => wres = s.err

C21_Witness ==
    /\ pc = "refused" /\ api = "serde"
    /\ value.k = "tuple" /\ w = Serialize(value).w /\ Len(w) > 1
    /\ flushes = 1 /\ wres = "IO"

C21_WitnessFlushed ==
    /\ pc = "written" /\ api = "serde" /\ value.k = "seq"
    /\ Len(w) = 3 /\ flushes = 1 /\ wres = "Ok"

\* C22: the shape-free requests deserialize_any, deserialize_identifier and
\* deserialize_ignored_any always fail with the Unsupported error and consume
\* no byte of the source.
C22_Unsupported ==
    /\ (pc = "done" /\ api = "serde" /\ shape.k \in ShapeFreeKinds)
          => (~result.ok /\ result.err = "Unsupported" /\ r = src)
    /\ (pc = "done" /\ api = "serde" /\ shape.k = "tuple" /\ Len(shape.ts) = 2
          /\ shape.ts[2].k \in ShapeFreeKinds /\ src # <<>>)
          => (~result.ok /\ result.err = "Unsupported" /\ <<src[1]>> \o r = src)
    /\ pc = "fed"
          => /\ deserialize_any(r) = Err("Unsupported", r)
             /\ deserialize_identifier(r) = Err("Unsupported", r)
             /\ deserialize_ignored_any(r) = Err("Unsupported", r)

C22_Witness ==
    /\ pc = "done" /\ api = "serde" /\ shape.k = "any"
    /\ src = <<5, 9>> /\ r = src /\ result.err = "Unsupported"

\* C23: for every first byte h, decode_u64 reads exactly k further bytes, k
\* the number of leading one bits of h: it succeeds whenever the k bytes are
\* there, with the value made of the bits of h below its marker and of those
\* k bytes (overlong forms included; for h = 0xFF the 8 following bytes
\* alone), fails with an end-of-input error when they are not, and never
\* returns the InvalidData error.
C23_EveryHeadByte ==
    /\ (pc = "done" /\ api = "varuint") => (result.ok \/ result.err = "UnexpectedEof")
    /\ (pc = "done" /\ api = "varuint" /\ fed = "raw" /\ src # <<>>)
          => \E k \in {LeadingOnes(BitsOfByte(src[1]))} :
                IF Len(src) >= 1 + k
                THEN /\ result.ok
                     /\ r = SubSeq(src, k + 2, Len(src))
                     /\ result.v.n = AsUnsigned(SubSeq(BitsOfByte(src[1]), k + 2, 8)
                                                  \o from_be_bytes(SubSeq(src, 2, k + 1)), 64)
                ELSE ~result.ok /\ result.err = "UnexpectedEof"
    /\ (pc = "done" /\ api = "varuint" /\ fed = "raw" /\ src = <<>>)
          => (~result.ok /\ result.err = "UnexpectedEof")

C23_Witness ==
    /\ pc = "done" /\ api = "varuint" /\ fed = "raw"
    /\ src = <<255, 129, 2, 3, 4, 5, 6, 7, 255, 200>>
    /\ result.ok /\ r = <<200>>

C23_WitnessOverlong ==
    /\ pc = "done" /\ api = "varuint" /\ fed = "raw"
    /\ src = <<192, 0, 0>> /\ result.ok /\ result.v.n = Zeros(64) /\ r = <<>>

\* the first failure among the requests for the shapes ts, made one after the
\* other on the source rest, each on what the one before left
RECURSIVE FirstFailure(_, _)
FirstFailure(ts, rest) ==
    IF ts = <<>> THEN Ok(NoValue, rest)
    ELSE Match(Deserialize(Head(ts), rest),
               LAMBDA d : FirstFailure(Tail(ts), d.r),
               LAMBDA f : f)

\* the requests behind a length prefix of count elements of a sequence or
\* entries of a map of shape t
ElementShapes(t, count) == [i \in 1..(count * Len(t.ts)) |-> t.ts[((i - 1) % Len(t.ts)) + 1]]

\* result and r are what the failure f left
EndsAt(f) == ~result.ok /\ result.err = f.err /\ r \in SourceAfter(f)

\* C24: within one from_reader call the first failing shape request ends the
\* call: no further byte is read from the source, the remaining elements of
\* the enclosing sequence, map or tuple are not requested, the trailing-data
\* check is not run, and the error returned is that first error (an invalid
\* value followed by more bytes reports the invalid value, not
\* IncompleteRead).
C24_FirstErrorEnds ==
    (pc = "done" /\ api = "serde")
        => /\ \A d \in {Deserialize(shape, src)} : ~d.ok => EndsAt(d)
           /\ shape.k \in TupleKinds
                 => \A f \in {FirstFailure(shape.ts, src)} : ~f.ok => EndsAt(f)
           /\ shape.k \in {"seq", "map"}
                 => \A len \in {decode_u64(src)} :
                       (len.ok /\ BufLen(len.v) <= 4)
                          => \A f \in {FirstFailure(ElementShapes(shape, BufLen(len.v)), len.r)} :
                                ~f.ok => EndsAt(f)

C24_Witness ==
    /\ pc = "done" /\ api = "serde" /\ shape = Shape("seq", <<Prim("bool")>>)
    /\ src = <<2, 1, 2, 0>> /\ r = <<0>>
    /\ ~result.ok /\ result.err = "InvalidValue"

\* the variant index on the wire is the index of a variant of the enum t
Declared(t, idx) == \E i \in 1..Len(t.ts) : idx = NatToBits(i - 1, 64)

\* C25: when an enum is read, a variant index on the wire that is not the
\* index of a declared variant makes the read fail; an index of 2^32 or more
\* is rejected, not reduced modulo 2^32 and read as the variant with the
\* reduced index.
C25_UndeclaredIndexFails ==
    (pc = "done" /\ api = "serde" /\ shape.k = "enum" /\ fed = "raw")
        => \A idx \in {decode_u64(src)} :
              (idx.ok /\ ~Declared(shape, idx.v)) => ~result.ok

\* an undeclared index below 2^32 is rejected as an invalid value, and the
\* variant's content is not read
C25_NarrowIndexFails ==
    (pc = "done" /\ api = "serde" /\ shape.k = "enum" /\ fed = "raw")
        => \A idx \in {decode_u64(src)} :
              (idx.ok /\ ~Declared(shape, idx.v) /\ SubSeq(idx.v, 1, 32) = Zeros(32))
                 => (~result.ok /\ result.err = "InvalidValue" /\ r = idx.r)

\* C26: Deserializer::end leaves an exhausted source as it is and returns Ok,
\* however often it is called; on a source with data left it returns
\* IncompleteRead and consumes one byte per call, so that with exactly one
\* byte left the first call returns IncompleteRead and the second Ok; a
\* failure of the source that is not the end of the input is returned as an
\* I/O error, never as Ok or IncompleteRead.
C26_EndStep ==
    [][(api' = "end" /\ pc' = "done")
          => IF fed = "broken" THEN ~result'.ok /\ result'.err = "IO" /\ r' = r
             ELSE IF r = <<>> THEN result'.ok /\ r' = r
             ELSE ~result'.ok /\ result'.err = "IncompleteRead" /\ r' = Tail(r)]_vars

C26_Witness ==
    /\ pc = "done" /\ api = "end" /\ fed = "raw"
    /\ src = <<7>> /\ r = <<>> /\ result.ok

====
